---- MODULE Spec2Model ----
(***************************************************************************)
(* Rating Ledger Engine of wenxihuang-com (backend/src/services/seasons.rs, *)
(* services/elo.rs, handlers/matches.rs).                                   *)
(*                                                                          *)
(* The database is modelled as its committed tables.  A handler is a       *)
(* process that walks through its SQL statements; statements run on the    *)
(* pool are applied to the committed tables at once (autocommit), the      *)
(* statements of a transaction are buffered in the process and applied at  *)
(* COMMIT (PostgreSQL READ COMMITTED: every statement reads the tables as  *)
(* committed at the time it runs).                                          *)
(*                                                                          *)
(* Units: ratings and K-factors are f64 in the code; here they are         *)
(* integers in hundredths (100000 is a rating of 1000.00, 3200 is K = 32). *)
(* Expected scores and decay factors are in 1/10000.  Time is in minutes.  *)
(***************************************************************************)
EXTENDS Integers, Sequences, FiniteSets, TLC

\* ------------------------------------------------------------------ bounds
NumPlayers == 2
MaxSeasons == 2
MaxMatches == 2
MaxGames == 2
MaxTick == 2
TimeStep == 3
InitialSeasons == 3
MaxJobs == 2
MaxPlayed == 4
MaxListed == 3

\* ------------------------------------------------------- program constants
GameMinutes == 5
EloScaleDiv == 400
DefaultElo == 1000
DefaultK == 32
\* handlers/seasons.rs 15-20
MAX_SEASON_NAME_LENGTH == 100
MIN_K_FACTOR == 1
MAX_K_FACTOR == 100
MIN_STARTING_ELO == 100
MAX_STARTING_ELO == 3000
\* services/seasons.rs 96-136: the limits of the service's own validation
ServiceMaxNameLength == 255
ServiceMaxStartingElo == 5000
ServiceMaxK == 100
ServiceMaxBonusPeriod == 1000

Players == 1..NumPlayers
SeasonIds == 1..MaxSeasons
MatchIds == 1..MaxMatches
Times == {TimeStep * i : i \in 0..MaxTick}
None == -1
Cents == 100
Unit == 10000

VARIABLES
    seasons,          \* table seasons: set of rows
    player_seasons,   \* table player_seasons: set of rows (the Participation rows)
    players,          \* table players: player id -> [current_elo, is_active]
    matches,          \* table matches: set of rows
    games,            \* table games: set of rows
    elo_history,      \* table elo_history: set of rows (the Rating-History ledger)
    next_season,      \* next fresh season id
    next_match,       \* next fresh match id
    jobs,             \* table jobs: set of rows (the job-status records)
    elo_configurations, \* table elo_configurations: set of rows (the named
                      \* shared rating configurations)
    pc,               \* per process: the statement it is at
    loc               \* per process: the handler's local variables

vars == <<seasons, player_seasons, players, matches, games, elo_history,
          next_season, next_match, jobs, elo_configurations, pc, loc>>

tables == <<seasons, player_seasons, players, matches, games, elo_history,
            elo_configurations>>

\* ----------------------------------------------------------------- helpers
Abs(x) == IF x >= 0 THEN x ELSE -x

\* integer product/quotient rounded toward zero, as a stand-in for the f64 product
MulDiv(k, x, d) == IF x >= 0 THEN (k * x) \div d ELSE -((k * (-x)) \div d)

\* piecewise-linear interpolation between (x0,y0) and (x1,y1)
Lerp(x, x0, y0, x1, y1) == y0 + ((y1 - y0) * (x - x0)) \div (x1 - x0)

\* all orderings of the finite set S that are ascending in key; rows with equal
\* keys come in any order (ORDER BY without a tie-breaker)
OrderedBy(S, key(_)) ==
    LET n == Cardinality(S)
    IN  {s \in [1..n -> S] :
            /\ \A i, j \in 1..n : i # j => s[i] # s[j]
            /\ \A i, j \in 1..n : i < j => key(s[i]) <= key(s[j])}

Range(s) == {s[i] : i \in 1..Len(s)}

\* ------------------------------------------------------- Rating Calculator
\* 1 / (1 + 10^(d/400)) in 1/10000, d = opponent - self in hundredths of a point
\* (table of the logistic curve at 0, 50, 100, 200, 400, 800 points)
ExpectedLower(a) ==
    IF a <= 50 * Cents THEN Lerp(a, 0, 5000, 50 * Cents, 4285)
    ELSE IF a <= 100 * Cents THEN Lerp(a, 50 * Cents, 4285, 100 * Cents, 3599)
    ELSE IF a <= 200 * Cents THEN Lerp(a, 100 * Cents, 3599, 200 * Cents, 2403)
    ELSE IF a <= EloScaleDiv * Cents THEN Lerp(a, 200 * Cents, 2403, EloScaleDiv * Cents, 909)
    ELSE IF a <= 2 * EloScaleDiv * Cents
         THEN Lerp(a, EloScaleDiv * Cents, 909, 2 * EloScaleDiv * Cents, 99)
    ELSE 99

\* the nearest value an f64 can hold, for scores in 1/10000: a float keeps a
\* fixed number of significant bits, so the values from 0.5 up lie on a grid
\* twice as coarse as the values below 0.5.  Here the grid is 2/10000 from 0.5
\* up and 1/10000 below; a value halfway between two grid points goes to the
\* one with the even mantissa (round-half-to-even).
RoundF(v) ==
    IF Abs(v) < Unit \div 2 \/ v % 2 = 0 THEN v
    ELSE IF (v + 1) % 4 = 0 THEN v + 1 ELSE v - 1

\* the f64 difference a - b
FSub(a, b) == RoundF(a - b)

Expected(self, opponent) ==
    LET d == opponent - self
    IN  RoundF(IF d >= 0 THEN ExpectedLower(d) ELSE Unit - ExpectedLower(-d))

\* calculate_match_elo_changes: games is a sequence of [game_id, winner] with
\* winner 1 (GameWinner::Player1) or 2 (GameWinner::Player2)
RECURSIVE MatchChangesFrom(_, _, _, _, _, _)
MatchChangesFrom(games_, i, p1_elo, p2_elo, k1, k2) ==
    IF i > Len(games_) THEN <<>>
    ELSE LET expected_p1 == Expected(p1_elo, p2_elo)
             expected_p2 == FSub(Unit, expected_p1)
             p1_score == IF games_[i].winner = 1 THEN Unit ELSE 0
             p2_score == IF games_[i].winner = 1 THEN 0 ELSE Unit
             p1_change == MulDiv(k1, FSub(p1_score, expected_p1), Unit)
             p2_change == MulDiv(k2, FSub(p2_score, expected_p2), Unit)
             p1_after == p1_elo + p1_change
             p2_after == p2_elo + p2_change
         IN  <<[game_id |-> games_[i].game_id,
                player1_elo_before |-> p1_elo, player1_elo_after |-> p1_after,
                player1_elo_change |-> p1_change,
                player2_elo_before |-> p2_elo, player2_elo_after |-> p2_after,
                player2_elo_change |-> p2_change]>>
             \o MatchChangesFrom(games_, i + 1, p1_after, p2_after, k1, k2)

\* a calculator that applies player 1's K-factor to both players
calculate_match_elo_changes_one_k(p1_elo, p2_elo, games_, k1, k2) ==
    MatchChangesFrom(games_, 1, p1_elo, p2_elo, k1, k1)

calculate_match_elo_changes(p1_elo, p2_elo, games_, k1, k2) ==
    MatchChangesFrom(games_, 1, p1_elo, p2_elo, k1, k2)

\* ------------------------------------------------ Dynamic K-Factor Resolver
\* e^(-g/period) in 1/10000 (table of the exponential at t = 0, 0.5, 1, 2, 4, 8)
ExpDecay(g, period) ==
    LET t == (g * 1000) \div period
    IN  IF t <= 500 THEN Lerp(t, 0, 10000, 500, 6065)
        ELSE IF t <= 1000 THEN Lerp(t, 500, 6065, 1000, 3679)
        ELSE IF t <= 2000 THEN Lerp(t, 1000, 3679, 2000, 1353)
        ELSE IF t <= 4000 THEN Lerp(t, 2000, 1353, 4000, 183)
        ELSE IF t <= 8000 THEN Lerp(t, 4000, 183, 8000, 3)
        ELSE 0

\* a resolver that adds the decayed bonus to the static K-factor instead of base_k
calculate_dynamic_k_factor_on_static(k_factor, base_k, bonus, period, games_played) ==
    IF base_k # None /\ bonus # None /\ period # None /\ period > 0
    THEN k_factor + MulDiv(bonus, ExpDecay(games_played, period), Unit)
    ELSE k_factor

calculate_dynamic_k_factor(k_factor, base_k, bonus, period, games_played) ==
    IF base_k # None /\ bonus # None /\ period # None /\ period > 0
    THEN base_k + MulDiv(bonus, ExpDecay(games_played, period), Unit)
    ELSE k_factor

\* ------------------------------------------------------------- table rows
SeasonRow(id, start_date, cfg, active) ==
    [id |-> id, start_date |-> start_date,
     starting_elo |-> cfg.starting_elo, k_factor |-> cfg.k_factor,
     base_k_factor |-> cfg.base_k_factor,
     new_player_k_bonus |-> cfg.new_player_k_bonus,
     new_player_bonus_period |-> cfg.new_player_bonus_period,
     elo_version |-> cfg.elo_version, is_active |-> active]

PlayerSeasonRow(player_id, season_id, elo) ==
    [player_id |-> player_id, season_id |-> season_id, current_elo |-> elo,
     games_played |-> 0, wins |-> 0, losses |-> 0, is_included |-> TRUE]

\* the season's own embedded parameters, static K
StaticConfig ==
    [starting_elo |-> DefaultElo * Cents, k_factor |-> DefaultK * Cents,
     base_k_factor |-> None, new_player_k_bonus |-> None,
     new_player_bonus_period |-> None, elo_version |-> None]

\* embedded parameters with the dynamic-K triple: K = 20 + 20 * e^(-games/10)
DynamicConfig ==
    [StaticConfig EXCEPT !.base_k_factor = 20 * Cents, !.new_player_k_bonus = 20 * Cents,
                         !.new_player_bonus_period = 10]

SeasonById(id) == {s \in seasons : s.id = id}
SeasonIdsNow == {s.id : s \in seasons}

\* ---------------------------------------------------------------- processes
IdleLoc ==
    [op |-> "none", result |-> "none", sid |-> None, start_date |-> None,
     cfg |-> None, player_ids |-> None, deact |-> {}, queue |-> <<>>,
     rsid |-> None, rc |-> None, reassigned |-> None, cm |-> None, ds |-> None,
     mid |-> None, name |-> None, recalculated |-> <<>>, job |-> None, k |-> None,
     init |-> None]

Procs == DOMAIN pc

\* season rows whose row lock process q holds (rows it has updated in its open
\* transaction)
HoldsSeasonLocks(q) == pc[q] \in {"cs_commit", "as_commit"}
LockedSeasons(q) == IF HoldsSeasonLocks(q) THEN loc[q].deact ELSE {}
LockedByOthers(p) == UNION {LockedSeasons(q) : q \in Procs \ {p}}

\* player_seasons rows locked in q's open transaction: by "SELECT ... FOR
\* UPDATE" of create_match, by the UPDATEs of recalculate_season_elo
LockedRows(q) ==
    IF pc[q] \in {"cm_lock2", "cm_commit"} THEN loc[q].cm.locks
    ELSE IF pc[q] = "rc_commit"
    THEN {<<m, loc[q].rc.season_id>> : m \in loc[q].rc.members}
    ELSE {}
RowsLockedByOthers(p) == UNION {LockedRows(q) : q \in Procs \ {p}}

Goto(p, label, newloc) ==
    /\ pc' = [pc EXCEPT ![p] = label]
    /\ loc' = [loc EXCEPT ![p] = newloc]

\* the handler returns: its locals are dropped
Return(p) ==
    /\ pc[p] = "done"
    /\ Goto(p, "idle", IdleLoc)
    /\ UNCHANGED <<tables, next_season, next_match, jobs>>

\* ------------------------------------------------ the K-factor resolver, called
\* one call of calculate_dynamic_k_factor: the arguments and the K it returns
ResolveK(p, args) ==
    /\ pc[p] = "idle"
    /\ Goto(p, "done",
            [IdleLoc EXCEPT !.op = "calculate_dynamic_k_factor", !.cfg = args,
                !.k = calculate_dynamic_k_factor(args.k_factor, args.base_k_factor,
                          args.new_player_k_bonus, args.new_player_bonus_period,
                          args.games_played),
                !.result = "ok"])
    /\ UNCHANGED <<tables, next_season, next_match, jobs>>

\* one call of calculate_match_elo_changes: the arguments and the changes it
\* returns
CalculateMatch(p, args) ==
    /\ pc[p] = "idle"
    /\ Goto(p, "done",
            [IdleLoc EXCEPT !.op = "calculate_match_elo_changes", !.cfg = args,
                !.rc = calculate_match_elo_changes(args.player1_starting_elo,
                           args.player2_starting_elo, args.games,
                           args.player1_k_factor, args.player2_k_factor),
                !.result = "ok"])
    /\ UNCHANGED <<tables, next_season, next_match, jobs>>

\* ------------------------------------------------------------ create_season
\* seasons.rs 77-141: validation passed, BEGIN
CreateSeasonCall(p, start_date, cfg, player_ids) ==
    /\ pc[p] = "idle"
    /\ next_season <= MaxSeasons
    /\ Goto(p, "cs_deactivate",
            [IdleLoc EXCEPT !.op = "create_season", !.start_date = start_date,
                            !.player_ids = player_ids, !.cfg = cfg])
    /\ UNCHANGED <<tables, next_season, next_match, jobs>>

\* "UPDATE seasons SET is_active = false" inside a transaction: the statement
\* takes its snapshot, then needs the row lock of every row it saw.  When another
\* open transaction holds one of them the statement waits, keeping its snapshot.
DeactivateAll(p, at, waiting, holding) ==
    /\ pc[p] = at
    /\ LET targets == SeasonIdsNow
       IN  IF targets \cap LockedByOthers(p) = {}
           THEN Goto(p, holding, [loc[p] EXCEPT !.deact = targets])
           ELSE Goto(p, waiting, [loc[p] EXCEPT !.deact = targets])
    /\ UNCHANGED <<tables, next_season, next_match, jobs>>

\* the blocked UPDATE resumes once the other transaction has ended; it updates
\* the rows of its snapshot that still exist
DeactivateResume(p, waiting, holding) ==
    /\ pc[p] = waiting
    /\ loc[p].deact \cap LockedByOthers(p) = {}
    /\ Goto(p, holding, [loc[p] EXCEPT !.deact = loc[p].deact \cap SeasonIdsNow])
    /\ UNCHANGED <<tables, next_season, next_match, jobs>>

CreateSeasonDeactivate(p) == DeactivateAll(p, "cs_deactivate", "cs_wait", "cs_commit")
CreateSeasonResume(p) == DeactivateResume(p, "cs_wait", "cs_commit")

Deactivated(rows, ids) ==
    {IF s.id \in ids THEN [s EXCEPT !.is_active = FALSE] ELSE s : s \in rows}

\* INSERT INTO seasons (..., is_active) VALUES (..., true); COMMIT
CreateSeasonCommit(p) ==
    /\ pc[p] = "cs_commit"
    /\ seasons' = Deactivated(seasons, loc[p].deact)
                    \cup {SeasonRow(next_season, loc[p].start_date, loc[p].cfg, TRUE)}
    /\ next_season' = next_season + 1
    /\ Goto(p, "cs_init", [loc[p] EXCEPT !.sid = next_season, !.deact = {}])
    /\ UNCHANGED <<player_seasons, players, matches, games, elo_history, next_match, jobs,
                   elo_configurations>>

\* initialize_season_with_players / initialize_season_players
\* player_ids is [given |-> FALSE] for None, [given |-> TRUE, ids |-> ...] for Some
InitialMembers(player_ids) ==
    IF ~player_ids.given
    THEN {q \in DOMAIN players : players[q].is_active}
    ELSE {q \in player_ids.ids : q \in DOMAIN players}

InitializedRows(season, player_ids) ==
    {PlayerSeasonRow(q, season.id, season.starting_elo) :
        q \in {m \in InitialMembers(player_ids) :
                 ~\E ps \in player_seasons : ps.player_id = m /\ ps.season_id = season.id}}

CreateSeasonInit(p) ==
    /\ pc[p] = "cs_init"
    /\ IF SeasonById(loc[p].sid) = {}
       THEN \* RowNotFound: "DELETE FROM seasons WHERE id = $1" and return the error
            /\ Goto(p, "done", [loc[p] EXCEPT !.result = "err"])
            /\ UNCHANGED <<tables, next_season, next_match, jobs>>
       ELSE /\ \E season \in SeasonById(loc[p].sid) :
                  player_seasons' = player_seasons
                                      \cup InitializedRows(season, loc[p].player_ids)
            /\ Goto(p, "ra_matches", loc[p])
            /\ UNCHANGED <<seasons, players, matches, games, elo_history,
                           next_season, next_match, jobs, elo_configurations>>

\* seasons.rs 91-139: the validation of the service function.  A name is
\* [len, trimmed]: its length and its length after trim().
ServiceValid(name, cfg) ==
    /\ name.trimmed > 0
    /\ name.trimmed <= ServiceMaxNameLength
    /\ cfg.starting_elo >= 0
    /\ cfg.starting_elo <= ServiceMaxStartingElo * Cents
    /\ cfg.k_factor > 0
    /\ cfg.k_factor <= ServiceMaxK * Cents
    /\ cfg.base_k_factor # None
          => cfg.base_k_factor > 0 /\ cfg.base_k_factor <= ServiceMaxK * Cents
    /\ cfg.new_player_k_bonus # None
          => cfg.new_player_k_bonus >= 0 /\ cfg.new_player_k_bonus <= ServiceMaxK * Cents
    /\ cfg.new_player_bonus_period # None
          => cfg.new_player_bonus_period >= 0
             /\ cfg.new_player_bonus_period <= ServiceMaxBonusPeriod

\* a handler that lets any presence pattern of the three fields through
DynamicTripleUnchecked(cfg) == TRUE

\* handlers/seasons.rs 166-174: "if any dynamic K-factor field is provided, all
\* three must be provided"
DynamicTripleValid(cfg) ==
    LET has_base_k == cfg.base_k_factor # None
        has_bonus == cfg.new_player_k_bonus # None
        has_period == cfg.new_player_bonus_period # None
    IN  ~((has_base_k \/ has_bonus \/ has_period)
            /\ (~has_base_k \/ ~has_bonus \/ ~has_period))

\* handlers/seasons.rs 132-202: the validation of the HTTP handler
HandlerValid(name, cfg) ==
    /\ ~(name.len = 0 \/ name.len > MAX_SEASON_NAME_LENGTH)
    /\ ~(cfg.k_factor < MIN_K_FACTOR * Cents \/ cfg.k_factor > MAX_K_FACTOR * Cents)
    /\ ~(cfg.starting_elo < MIN_STARTING_ELO * Cents
           \/ cfg.starting_elo > MAX_STARTING_ELO * Cents)
    /\ DynamicTripleValid(cfg)
    /\ cfg.base_k_factor # None
          => (cfg.base_k_factor >= MIN_K_FACTOR * Cents
              /\ cfg.base_k_factor <= MAX_K_FACTOR * Cents)
    /\ cfg.new_player_k_bonus # None
          => (cfg.new_player_k_bonus >= 0 /\ cfg.new_player_k_bonus <= MAX_K_FACTOR * Cents)
    /\ cfg.new_player_bonus_period # None => cfg.new_player_bonus_period > 0

\* POST /seasons: the handler validates the request, then calls the service,
\* which validates again and opens its transaction.  (The handler's lookups of
\* the name and of elo_version are reads; the requests here carry a fresh name
\* and no elo_version.)
CreateSeasonRequest(p, name, start_date, cfg, player_ids) ==
    /\ pc[p] = "idle"
    /\ next_season <= MaxSeasons
    /\ LET call == [IdleLoc EXCEPT !.op = "create_season", !.start_date = start_date,
                                   !.player_ids = player_ids, !.cfg = cfg,
                                   !.name = name]
       IN  IF HandlerValid(name, cfg) /\ ServiceValid(name, cfg)
           THEN Goto(p, "cs_deactivate", call)
           ELSE Goto(p, "done", [call EXCEPT !.result = "err"])
    /\ UNCHANGED <<tables, next_season, next_match, jobs>>

\* seasons.rs 172-200: initialization fails part-way.  The INSERTs run one by one
\* on the pool, so the rows inserted before the failing statement are committed.
CreateSeasonInitFail(p) ==
    /\ pc[p] = "cs_init"
    /\ \E season \in SeasonById(loc[p].sid) :
          \E done \in SUBSET InitializedRows(season, loc[p].player_ids) :
             /\ done # InitializedRows(season, loc[p].player_ids)
             /\ player_seasons' = player_seasons \cup done
    /\ Goto(p, "cs_init_cleanup", [loc[p] EXCEPT !.result = "err"])
    /\ UNCHANGED <<seasons, players, matches, games, elo_history,
                   next_season, next_match, jobs, elo_configurations>>

\* seasons.rs 186-197: "DELETE FROM seasons WHERE id = $1" on the pool, its error
\* only logged.  What the statement does to the season's Participation rows is
\* decided by the table definition, which is not part of the sources: the rows
\* stay (no reference), the DELETE is refused (restricting reference), or they
\* go with the season (cascading reference).
CreateSeasonInitCleanup(p) ==
    /\ pc[p] = "cs_init_cleanup"
    /\ loc[p].sid \notin LockedByOthers(p)
    /\ LET referenced == \E ps \in player_seasons : ps.season_id = loc[p].sid
       IN  \/ /\ seasons' = {s \in seasons : s.id # loc[p].sid}
              /\ UNCHANGED player_seasons
           \/ /\ referenced
              /\ UNCHANGED <<seasons, player_seasons>>
           \/ /\ referenced
              /\ seasons' = {s \in seasons : s.id # loc[p].sid}
              /\ player_seasons' = {ps \in player_seasons : ps.season_id # loc[p].sid}
    /\ Goto(p, "done", loc[p])
    /\ UNCHANGED <<players, matches, games, elo_history, next_season, next_match, jobs,
                   elo_configurations>>

\* seasons.rs 211-224: reassign_games_to_seasons returns an error (one of its
\* statements fails); create_season goes on to cleanup_season
ReassignFail(p) ==
    /\ pc[p] \in {"ra_matches", "ra_games"}
    /\ loc[p].op = "create_season"
    /\ Goto(p, "cs_cleanup", [loc[p] EXCEPT !.result = "err"])
    /\ UNCHANGED <<tables, next_season, next_match, jobs>>

\* create_season after reassign_games_to_seasons or recalculate_seasons_from
\* returned an error: cleanup_season deletes the new season's Participation
\* rows, ledger rows and the season row in one transaction, its error only
\* logged; create_season returns the error either way.  cleanup_season does not
\* touch matches or games.  What "DELETE FROM seasons WHERE id = $1" does while
\* matches and games still carry the season's id is decided by the table
\* definition, which is not part of the sources: the DELETE is refused and the
\* transaction rolls back (restricting reference), the rows keep the id (no
\* reference), their season_id becomes NULL (ON DELETE SET NULL), or they go
\* with the season (cascading reference).
CleanupSeason(p) ==
    /\ pc[p] = "cs_cleanup"
    /\ loc[p].sid \notin LockedByOthers(p)
    /\ LET sid == loc[p].sid
           referenced == \E m \in matches \cup games : m.season_id = sid
           deleted == /\ seasons' = {s \in seasons : s.id # sid}
                      /\ player_seasons' = {ps \in player_seasons : ps.season_id # sid}
                      /\ elo_history' = {h \in elo_history : h.season_id # sid}
           unassigned(rows) ==
               {IF r.season_id = sid THEN [r EXCEPT !.season_id = None] ELSE r : r \in rows}
       IN  \/ /\ deleted
              /\ UNCHANGED <<matches, games>>
           \/ /\ referenced
              /\ UNCHANGED <<seasons, player_seasons, elo_history, matches, games>>
           \/ /\ referenced
              /\ deleted
              /\ matches' = unassigned(matches)
              /\ games' = unassigned(games)
           \/ /\ referenced
              /\ deleted
              /\ matches' = {m \in matches : m.season_id # sid}
              /\ games' = {g \in games : g.season_id # sid}
    /\ Goto(p, "done", loc[p])
    /\ UNCHANGED <<players, next_season, next_match, jobs, elo_configurations>>

\* ------------------------------------------------ reassign_games_to_seasons
\* the ids the subquery "SELECT s.id FROM seasons s WHERE s.start_date <=
\* matches.submitted_at ORDER BY s.start_date DESC LIMIT 1" can return for match m:
\* with several seasons on the greatest start_date the row LIMIT 1 keeps is
\* not determined by the query
PartitionOf(m) ==
    LET cands == {s \in seasons : s.start_date <= m.submitted_at}
    IN  {s.id : s \in {c \in cands : \A o \in cands : o.start_date <= c.start_date}}

HasSeasonFor(m) == \E s \in seasons : s.start_date <= m.submitted_at

\* one evaluation of the UPDATE matches statement: a choice of subquery result
\* per match that has a matching season
PartitionPicks ==
    LET ms == {m \in matches : HasSeasonFor(m)}
    IN  {f \in [{m.id : m \in ms} -> SeasonIdsNow] :
            \A m \in ms : f[m.id] \in PartitionOf(m)}

ReassignedMatches(pick) ==
    {IF m.id \in DOMAIN pick /\ m.season_id # pick[m.id]
     THEN [m EXCEPT !.season_id = pick[m.id]] ELSE m : m \in matches}

MatchesAffected(pick) ==
    Cardinality({m \in matches : m.id \in DOMAIN pick /\ m.season_id # pick[m.id]})

\* "UPDATE games SET season_id = m.season_id FROM matches m WHERE games.match_id =
\* m.id AND (games.season_id IS NULL OR games.season_id != m.season_id)"
ParentSeason(g) == {m.season_id : m \in {x \in matches : x.id = g.match_id}}

GamesToInherit == {g \in games : \E sid \in ParentSeason(g) : g.season_id # sid}

InheritedGames ==
    {IF g \in GamesToInherit
     THEN [g EXCEPT !.season_id = CHOOSE sid \in ParentSeason(g) : TRUE] ELSE g :
        g \in games}

\* where the caller of reassign_games_to_seasons goes on
AfterReassign(p) == IF loc[p].op = "create_season" THEN "rf_select" ELSE "done"

ReassignMatches(p) ==
    /\ pc[p] = "ra_matches"
    /\ \E pick \in PartitionPicks :
          /\ matches' = ReassignedMatches(pick)
          /\ Goto(p, "ra_games", [loc[p] EXCEPT !.reassigned = MatchesAffected(pick)])
    /\ UNCHANGED <<seasons, player_seasons, players, games, elo_history,
                   next_season, next_match, jobs, elo_configurations>>

ReassignGames(p) ==
    /\ pc[p] = "ra_games"
    /\ games' = InheritedGames
    /\ Goto(p, AfterReassign(p),
            [loc[p] EXCEPT !.reassigned = @ + Cardinality(GamesToInherit),
                           !.result = IF loc[p].op = "reassign" THEN "ok" ELSE @])
    /\ UNCHANGED <<seasons, player_seasons, players, matches, elo_history,
                   next_season, next_match, jobs, elo_configurations>>

\* a direct call of the public function
ReassignCall(p) ==
    /\ pc[p] = "idle"
    /\ Goto(p, "ra_matches", [IdleLoc EXCEPT !.op = "reassign"])
    /\ UNCHANGED <<tables, next_season, next_match, jobs>>

\* --------------------------------------------------- recalculate_season_elo
\* fresh serial ids for n new elo_history rows: ids are opaque, so the smallest
\* ids that no row and no open transaction refers to stand for new ones
UsedHistoryIds ==
    {h.id : h \in elo_history}
      \cup UNION {loc[q].rc.del :
                     q \in {r \in Procs : pc[r] \in {"rc_replay", "rc_persist", "rc_commit"}}}

FreeIds(used, n) ==
    LET pool == (1..(Cardinality(used) + n)) \ used
    IN  {x \in pool : Cardinality({y \in pool : y < x}) < n}

NthOf(S, i) == CHOOSE x \in S : Cardinality({y \in S : y < x}) = i - 1

WithIds(rows, used) ==
    LET fresh == FreeIds(used, Len(rows))
    IN  {[id |-> NthOf(fresh, i)] @@ rows[i] : i \in 1..Len(rows)}

HistoryRow(player_id, game_id, before, after, season_id, created_at) ==
    [player_id |-> player_id, game_id |-> game_id, elo_before |-> before,
     elo_after |-> after, season_id |-> season_id, created_at |-> created_at,
     elo_version |-> None]

\* "SELECT ... FROM games WHERE match_id = $1 ORDER BY played_at ASC"
GamesOfMatch(match_id) ==
    LET gs == {g \in games : g.match_id = match_id}
        at(g) == g.played_at
    IN  CHOOSE s \in OrderedBy(gs, at) : TRUE

\* the working state of one replay: rating, games played, wins, losses per member
\* and the ledger rows emitted so far
StartState(members, starting_elo) ==
    [elo |-> [q \in members |-> starting_elo],
     games_played |-> [q \in members |-> 0],
     wins |-> [q \in members |-> 0],
     losses |-> [q \in members |-> 0],
     rows |-> <<>>]

Wins(gs, who) == Cardinality({i \in 1..Len(gs) : gs[i].player1_id = who})

\* seasons.rs 795-944: one match of the replay loop, gs the match's games
ReplayGames(st, m, gs, cfg, season_id) ==
    LET p1 == m.player1_id
        p2 == m.player2_id
    IN  IF gs = <<>> THEN st
        ELSE IF p1 \notin DOMAIN st.elo \/ p2 \notin DOMAIN st.elo THEN st
        ELSE
        LET k1 == calculate_dynamic_k_factor(cfg.k_factor, cfg.base_k_factor,
                      cfg.new_player_k_bonus, cfg.new_player_bonus_period,
                      st.games_played[p1])
            k2 == calculate_dynamic_k_factor(cfg.k_factor, cfg.base_k_factor,
                      cfg.new_player_k_bonus, cfg.new_player_bonus_period,
                      st.games_played[p2])
            game_winners == [i \in 1..Len(gs) |->
                                [game_id |-> gs[i].id,
                                 winner |-> IF gs[i].player1_id = p1 THEN 1 ELSE 2]]
            ch == calculate_match_elo_changes(st.elo[p1], st.elo[p2], game_winners, k1, k2)
            n == Len(gs)
            w1 == Wins(gs, p1)
            new_rows == [j \in 1..(2 * n) |->
                LET i == (j + 1) \div 2
                IN  IF j % 2 = 1
                    THEN HistoryRow(p1, ch[i].game_id, ch[i].player1_elo_before,
                                    ch[i].player1_elo_after, season_id, gs[i].played_at)
                    ELSE HistoryRow(p2, ch[i].game_id, ch[i].player2_elo_before,
                                    ch[i].player2_elo_after, season_id, gs[i].played_at)]
        IN  [elo |-> [st.elo EXCEPT ![p1] = ch[n].player1_elo_after,
                                    ![p2] = ch[n].player2_elo_after],
             games_played |-> [st.games_played EXCEPT ![p1] = @ + n, ![p2] = @ + n],
             wins |-> [st.wins EXCEPT ![p1] = @ + w1, ![p2] = @ + (n - w1)],
             losses |-> [st.losses EXCEPT ![p1] = @ + (n - w1), ![p2] = @ + w1],
             rows |-> st.rows \o new_rows]

\* a replay that resolves the K-factors anew for every game of a match
RECURSIVE ReplayGameByGame(_, _, _, _, _, _)
ReplayGameByGame(st, m, gs, i, cfg, season_id) ==
    IF i > Len(gs) THEN st
    ELSE ReplayGameByGame(ReplayGames(st, m, <<gs[i]>>, cfg, season_id),
                          m, gs, i + 1, cfg, season_id)

ReplayMatchPerGameK(st, m, cfg, season_id) ==
    ReplayGameByGame(st, m, GamesOfMatch(m.id), 1, cfg, season_id)

ReplayMatch(st, m, cfg, season_id) ==
    ReplayGames(st, m, GamesOfMatch(m.id), cfg, season_id)

RECURSIVE ReplayFrom(_, _, _, _, _)
ReplayFrom(st, ms, i, cfg, season_id) ==
    IF i > Len(ms) THEN st
    ELSE ReplayFrom(ReplayMatch(st, ms[i], cfg, season_id), ms, i + 1, cfg, season_id)

Replay(ms, members, cfg, season_id) ==
    ReplayFrom(StartState(members, cfg.starting_elo), ms, 1, cfg, season_id)

\* the five rating parameters of a seasons row or an elo_configurations row
ParametersOf(row) ==
    [k_factor |-> row.k_factor, base_k_factor |-> row.base_k_factor,
     new_player_k_bonus |-> row.new_player_k_bonus,
     new_player_bonus_period |-> row.new_player_bonus_period,
     starting_elo |-> row.starting_elo]

\* a recalculation that always takes the season's own parameters
EffectiveConfigOwn(season) == ParametersOf(season)

\* seasons.rs 695-745: "SELECT ... FROM elo_configurations WHERE version_name =
\* $1" when the season has an elo_version; the configuration's parameters if
\* the row exists, the season's own otherwise
EffectiveConfig(season) ==
    LET named == {c \in elo_configurations : c.version_name = season.elo_version}
    IN  IF season.elo_version # None /\ named # {}
        THEN ParametersOf(CHOOSE c \in named : TRUE)
        ELSE ParametersOf(season)

\* where the caller of recalculate_season_elo goes on with the result
RecalcReturn(p, result) ==
    IF loc[p].op \in {"create_season", "delete_season"} /\ result = "ok"
    THEN Goto(p, "rf_next", [loc[p] EXCEPT !.rc = None,
                                           !.recalculated = Append(@, loc[p].rsid)])
    ELSE IF loc[p].op = "create_season"
    THEN Goto(p, "cs_cleanup", [loc[p] EXCEPT !.rc = None, !.result = result])
    ELSE Goto(p, "done", [loc[p] EXCEPT !.rc = None, !.result = result])

\* get_season_by_id(...).ok_or("Season not found")
RecalcSeason(p) ==
    /\ pc[p] = "rc_season"
    /\ IF SeasonById(loc[p].rsid) = {}
       THEN RecalcReturn(p, "err")
       ELSE \E season \in SeasonById(loc[p].rsid) :
               Goto(p, "rc_matches",
                    [loc[p] EXCEPT !.rc = [season_id |-> season.id,
                                           cfg |-> EffectiveConfig(season)]])
    /\ UNCHANGED <<tables, next_season, next_match, jobs>>

\* a recalculation that reads the season's matches only when no other
\* recalculation of the season is between that read and its commit
RecalcMatchesSerialized(p) ==
    /\ pc[p] = "rc_matches"
    /\ \A q \in Procs \ {p} :
          pc[q] \in {"rc_members", "rc_delete", "rc_replay", "rc_persist", "rc_commit"}
             => loc[q].rc.season_id # loc[p].rc.season_id
    /\ LET mine == {m \in matches : m.season_id = loc[p].rc.season_id}
           at(m) == m.submitted_at
       IN  IF mine = {}
           THEN RecalcReturn(p, "ok")
           ELSE \E ms \in OrderedBy(mine, at) :
                   Goto(p, "rc_members", [loc[p] EXCEPT !.rc = [matches |-> ms] @@ @])
    /\ UNCHANGED <<tables, next_season, next_match, jobs>>

\* "SELECT ... FROM matches WHERE season_id = $1 ORDER BY submitted_at ASC";
\* "if matches.is_empty() { return Ok(()) }"
RecalcMatches(p) ==
    /\ pc[p] = "rc_matches"
    /\ LET mine == {m \in matches : m.season_id = loc[p].rc.season_id}
           at(m) == m.submitted_at
       IN  IF mine = {}
           THEN RecalcReturn(p, "ok")
           ELSE \E ms \in OrderedBy(mine, at) :
                   Goto(p, "rc_members", [loc[p] EXCEPT !.rc = [matches |-> ms] @@ @])
    /\ UNCHANGED <<tables, next_season, next_match, jobs>>

\* a recalculation that takes every player for a member of the season
RecalcMembersAllPlayers(p) ==
    /\ pc[p] = "rc_members"
    /\ Goto(p, "rc_delete", [loc[p] EXCEPT !.rc = [members |-> DOMAIN players] @@ @])
    /\ UNCHANGED <<tables, next_season, next_match, jobs>>

\* "SELECT player_id FROM player_seasons WHERE season_id = $1"; BEGIN
RecalcMembers(p) ==
    /\ pc[p] = "rc_members"
    /\ LET members == {ps.player_id :
                          ps \in {r \in player_seasons : r.season_id = loc[p].rc.season_id}}
       IN  Goto(p, "rc_delete", [loc[p] EXCEPT !.rc = [members |-> members] @@ @])
    /\ UNCHANGED <<tables, next_season, next_match, jobs>>

\* the same DELETE run on the pool instead of the transaction: the rows are gone
\* for every connection at once
HistoryAfterDeleteOnPool(del) == {h \in elo_history : h.id \notin del}

\* what the other connections see of elo_history once the DELETE has run on the
\* transaction (".execute(&mut *tx)"): the committed rows, still all there
HistoryAfterDelete(del) == elo_history

\* "DELETE FROM elo_history WHERE season_id = $1" in the transaction
RecalcDelete(p) ==
    /\ pc[p] = "rc_delete"
    /\ LET del == {h.id : h \in {r \in elo_history : r.season_id = loc[p].rc.season_id}}
       IN  /\ elo_history' = HistoryAfterDelete(del)
           /\ Goto(p, "rc_replay", [loc[p] EXCEPT !.rc = [del |-> del] @@ @])
    /\ UNCHANGED <<seasons, player_seasons, players, matches, games,
                   next_season, next_match, jobs, elo_configurations>>

\* the loop over the matches: the INSERTs into elo_history in the transaction
RecalcReplay(p) ==
    /\ pc[p] = "rc_replay"
    /\ LET rc == loc[p].rc
           st == Replay(rc.matches, rc.members, rc.cfg, rc.season_id)
       IN  Goto(p, "rc_persist", [loc[p] EXCEPT !.rc = [final |-> st] @@ @])
    /\ UNCHANGED <<tables, next_season, next_match, jobs>>

\* "UPDATE player_seasons SET current_elo = $1, games_played = $2, wins = $3,
\* losses = $4 WHERE player_id = $5 AND season_id = $6" for every member
PersistedRows(rows, st, season_id) ==
    {IF ps.season_id = season_id /\ ps.player_id \in DOMAIN st.elo
     THEN [ps EXCEPT !.current_elo = st.elo[ps.player_id],
                     !.games_played = st.games_played[ps.player_id],
                     !.wins = st.wins[ps.player_id],
                     !.losses = st.losses[ps.player_id]]
     ELSE ps : ps \in rows}

\* the UPDATEs wait for the rows another transaction has locked and keep them
\* locked until the commit
RecalcPersist(p) ==
    /\ pc[p] = "rc_persist"
    /\ \A q \in Procs \ {p} :
          LockedRows(q) \cap {<<m, loc[p].rc.season_id>> : m \in loc[p].rc.members} = {}
    /\ Goto(p, "rc_commit", loc[p])
    /\ UNCHANGED <<tables, next_season, next_match, jobs>>

\* the tables after the transaction's statements are applied
RecalcHistory(rc) ==
    {h \in elo_history : h.id \notin rc.del} \cup WithIds(rc.final.rows, UsedHistoryIds)

RecalcPlayerSeasons(rc) == PersistedRows(player_seasons, rc.final, rc.season_id)

RecalcPlayers(rc) == players

\* tx.commit()
RecalcCommit(p) ==
    /\ pc[p] = "rc_commit"
    /\ elo_history' = RecalcHistory(loc[p].rc)
    /\ player_seasons' = RecalcPlayerSeasons(loc[p].rc)
    /\ players' = RecalcPlayers(loc[p].rc)
    /\ RecalcReturn(p, "ok")
    /\ UNCHANGED <<seasons, matches, games, next_season, next_match, jobs,
                   elo_configurations>>

\* a statement of the transaction fails: "?" returns the error, the transaction
\* is dropped and rolls back
RecalcFail(p) ==
    /\ pc[p] \in {"rc_delete", "rc_replay", "rc_persist", "rc_commit"}
    /\ RecalcReturn(p, "err")
    /\ UNCHANGED <<tables, next_season, next_match, jobs>>

\* POST /seasons/{id}/recalculate, DELETE /matches/{id}: a direct call
RecalcCall(p, season_id) ==
    /\ pc[p] = "idle"
    /\ Goto(p, "rc_season", [IdleLoc EXCEPT !.op = "recalculate", !.rsid = season_id])
    /\ UNCHANGED <<tables, next_season, next_match, jobs>>

\* ------------------------------------------- recalculate_elo (handlers/elo.rs)
\* a named shared rating configuration (a row of elo_configurations); the
\* version names are numbered
NamedConfig == [version_name |-> 2, is_active |-> TRUE] @@ StaticConfig

\* a second, inactive configuration: K = 40, starting rating 1200
TournamentConfig ==
    [version_name |-> 3, is_active |-> FALSE] @@
    [StaticConfig EXCEPT !.k_factor = 40 * Cents, !.starting_elo = 1200 * Cents]

\* handlers/elo.rs delete_elo_config: refused for the active configuration;
\* "DELETE FROM elo_configurations WHERE version_name = $1", an error when the
\* statement fails or deletes no row
DeleteEloConfig(p, version_name) ==
    /\ pc[p] = "idle"
    /\ LET row == {c \in elo_configurations : c.version_name = version_name}
           done(result) == Goto(p, "done", [IdleLoc EXCEPT !.op = "delete_elo_config",
                                                           !.result = result])
       IN  IF row = {} \/ \E c \in row : c.is_active
           THEN done("err") /\ UNCHANGED elo_configurations
           ELSE \/ done("ok") /\ elo_configurations' = elo_configurations \ row
                \/ done("err") /\ UNCHANGED elo_configurations
    /\ UNCHANGED <<seasons, player_seasons, players, matches, games, elo_history,
                   next_season, next_match, jobs>>

\* services/jobs.rs create_job: "INSERT INTO jobs (job_type, status, created_by)
\* VALUES ($1, 'pending', $2) RETURNING id"
JobRow(id, job_type) == [id |-> id, job_type |-> job_type, status |-> "pending"]

\* services/jobs.rs update_job_status
WithStatus(rows, job_id, status) ==
    {IF j.id = job_id THEN [j EXCEPT !.status = status] ELSE j : j \in rows}

\* the handler: the configuration is looked up, the job is created and its id is
\* returned with the response; the detached task is spawned and has not started
RecalculateEloCall(p, outcome) ==
    /\ pc[p] = "idle"
    /\ Cardinality(jobs) < MaxJobs
    /\ IF outcome = "spawned"
       THEN LET job_id == Cardinality(jobs) + 1
            IN  /\ jobs' = jobs \cup {JobRow(job_id, "elo_recalculation")}
                /\ Goto(p, "re_spawned",
                        [IdleLoc EXCEPT !.op = "recalculate_elo", !.job = job_id,
                                        !.cfg = NamedConfig])
       ELSE /\ Goto(p, "done", [IdleLoc EXCEPT !.op = "recalculate_elo", !.result = "err"])
            /\ UNCHANGED jobs
    /\ UNCHANGED <<tables, next_season, next_match>>

\* the task marks the job running; if that statement fails the task returns
RecalculateEloRunning(p) ==
    /\ pc[p] = "re_spawned"
    /\ \/ /\ jobs' = WithStatus(jobs, loc[p].job, "running")
          /\ Goto(p, "re_select", loc[p])
       \/ /\ Goto(p, "done", [loc[p] EXCEPT !.result = "err"])
          /\ UNCHANGED jobs
    /\ UNCHANGED <<tables, next_season, next_match>>

\* recalculate_all_elo: "SELECT id FROM players"; "SELECT id, player1_id,
\* player2_id, played_at FROM games ORDER BY played_at ASC"; BEGIN
RecalcAllSelect(p) ==
    /\ pc[p] = "re_select"
    /\ LET at(g) == g.played_at
       IN  \E gs \in OrderedBy(games, at) :
              Goto(p, "re_commit", [loc[p] EXCEPT !.rc = [players |-> DOMAIN players,
                                                          games |-> gs]])
    /\ UNCHANGED <<tables, next_season, next_match, jobs>>

\* the games replayed from the starting rating, player1 of a game its winner
RECURSIVE ReplayAllFrom(_, _, _, _)
ReplayAllFrom(st, gs, i, config) ==
    IF i > Len(gs) THEN st
    ELSE LET game == gs[i]
             winner_elo_before == st.elo[game.player1_id]
             loser_elo_before == st.elo[game.player2_id]
             winner_k == calculate_dynamic_k_factor(config.k_factor, config.base_k_factor,
                             config.new_player_k_bonus, config.new_player_bonus_period,
                             st.games_played[game.player1_id])
             loser_k == calculate_dynamic_k_factor(config.k_factor, config.base_k_factor,
                            config.new_player_k_bonus, config.new_player_bonus_period,
                            st.games_played[game.player2_id])
             expected_winner == Expected(winner_elo_before, loser_elo_before)
             expected_loser == FSub(Unit, expected_winner)
             winner_elo_after ==
                 winner_elo_before + MulDiv(winner_k, FSub(Unit, expected_winner), Unit)
             loser_elo_after == loser_elo_before + MulDiv(loser_k, FSub(0, expected_loser), Unit)
             row(q, before, after) ==
                 [HistoryRow(q, game.id, before, after, None, game.played_at)
                     EXCEPT !.elo_version = config.version_name]
         IN  ReplayAllFrom(
                 [elo |-> [st.elo EXCEPT ![game.player1_id] = winner_elo_after,
                                         ![game.player2_id] = loser_elo_after],
                  games_played |-> [st.games_played EXCEPT ![game.player1_id] = @ + 1,
                                                           ![game.player2_id] = @ + 1],
                  rows |-> st.rows \o <<row(game.player1_id, winner_elo_before, winner_elo_after),
                                        row(game.player2_id, loser_elo_before, loser_elo_after)>>],
                 gs, i + 1, config)

\* the transaction of recalculate_all_elo: the ledger rows of the version are
\* replaced and every player's current_elo is set; COMMIT
RecalcAllCommit(p) ==
    /\ pc[p] = "re_commit"
    /\ LET config == loc[p].cfg
           st == ReplayAllFrom([elo |-> [q \in loc[p].rc.players |-> config.starting_elo],
                                games_played |-> [q \in loc[p].rc.players |-> 0],
                                rows |-> <<>>],
                               loc[p].rc.games, 1, config)
           kept == {h \in elo_history : h.elo_version # config.version_name}
       IN  /\ elo_history' = kept \cup WithIds(st.rows, {h.id : h \in kept})
           /\ players' = [q \in DOMAIN players |->
                             IF q \in DOMAIN st.elo
                             THEN [players[q] EXCEPT !.current_elo = st.elo[q]]
                             ELSE players[q]]
    /\ Goto(p, "re_record", [loc[p] EXCEPT !.rc = None, !.result = "ok"])
    /\ UNCHANGED <<seasons, player_seasons, matches, games, next_season, next_match, jobs,
                   elo_configurations>>

\* a statement of recalculate_all_elo fails: the transaction is dropped
RecalcAllFail(p) ==
    /\ pc[p] \in {"re_select", "re_commit"}
    /\ Goto(p, "re_record", [loc[p] EXCEPT !.rc = None, !.result = "err"])
    /\ UNCHANGED <<tables, next_season, next_match, jobs>>

\* a task that marks the job completed whatever recalculate_all_elo returned
RecalculateEloRecordCompleted(p) ==
    /\ pc[p] = "re_record"
    /\ \/ jobs' = WithStatus(jobs, loc[p].job, "completed")
       \/ UNCHANGED jobs
    /\ Goto(p, "done", loc[p])
    /\ UNCHANGED <<tables, next_season, next_match>>

\* the task records the outcome on the job; a failure of that statement is logged
RecalculateEloRecord(p) ==
    /\ pc[p] = "re_record"
    /\ \/ jobs' = WithStatus(jobs, loc[p].job,
                             IF loc[p].result = "ok" THEN "completed" ELSE "failed")
       \/ UNCHANGED jobs
    /\ Goto(p, "done", loc[p])
    /\ UNCHANGED <<tables, next_season, next_match>>

\* ------------------------------------------------- recalculate_seasons_from
\* a selection "WHERE start_date > $1", which leaves out the season starting at
\* the date itself
RecalcFromSelectLater(p) ==
    /\ pc[p] = "rf_select"
    /\ LET later == {s \in seasons : s.start_date > loc[p].start_date}
           at(s) == s.start_date
       IN  \E ss \in OrderedBy(later, at) :
              Goto(p, "rf_next", [loc[p] EXCEPT !.queue = [i \in 1..Len(ss) |-> ss[i].id]])
    /\ UNCHANGED <<tables, next_season, next_match, jobs>>

\* the same selection in descending order of start_date
RecalcFromSelectDescending(p) ==
    /\ pc[p] = "rf_select"
    /\ LET later == {s \in seasons : s.start_date >= loc[p].start_date}
           at(s) == s.start_date
       IN  \E ss \in OrderedBy(later, at) :
              Goto(p, "rf_next",
                   [loc[p] EXCEPT !.queue = [i \in 1..Len(ss) |-> ss[Len(ss) + 1 - i].id]])
    /\ UNCHANGED <<tables, next_season, next_match, jobs>>

\* "SELECT * FROM seasons WHERE start_date >= $1 ORDER BY start_date ASC"
RecalcFromSelect(p) ==
    /\ pc[p] = "rf_select"
    /\ LET later == {s \in seasons : s.start_date >= loc[p].start_date}
           at(s) == s.start_date
       IN  \E ss \in OrderedBy(later, at) :
              Goto(p, "rf_next", [loc[p] EXCEPT !.queue = [i \in 1..Len(ss) |-> ss[i].id]])
    /\ UNCHANGED <<tables, next_season, next_match, jobs>>

\* "for season in seasons { recalculate_season_elo(pool, season.id).await?; }"
RecalcFromNext(p) ==
    /\ pc[p] = "rf_next"
    /\ IF loc[p].queue = <<>>
       THEN Goto(p, "done", [loc[p] EXCEPT !.result = "ok"])
       ELSE Goto(p, "rc_season",
                 [loc[p] EXCEPT !.rsid = Head(loc[p].queue), !.queue = Tail(loc[p].queue)])
    /\ UNCHANGED <<tables, next_season, next_match, jobs>>

\* ------------------------------------------------------------- create_match

GameSeqs == UNION {[1..n -> {1, 2}] : n \in 1..MaxGames}

\* matches.rs 96-182: validation, the active season, both players; BEGIN
CreateMatchCall(p, player1_id, player2_id, winners, submitted_at) ==
    /\ pc[p] = "idle"
    /\ next_match <= MaxMatches
    /\ LET active == {s \in seasons : s.is_active}
           ok == /\ player1_id # player2_id
                 /\ winners # <<>>
                 /\ active # {}
                 /\ player1_id \in DOMAIN players /\ player2_id \in DOMAIN players
                 /\ players[player1_id].is_active /\ players[player2_id].is_active
       IN  IF ~ok
           THEN Goto(p, "done", [IdleLoc EXCEPT !.op = "create_match", !.result = "err"])
           ELSE \E season \in active :
                   Goto(p, "cm_lock1",
                        [IdleLoc EXCEPT !.op = "create_match",
                            !.cm = [season |-> season, player1_id |-> player1_id,
                                    player2_id |-> player2_id, winners |-> winners,
                                    submitted_at |-> submitted_at, locks |-> {}]])
    /\ UNCHANGED <<tables, next_season, next_match, jobs>>

RowOf(player_id, season_id) ==
    {ps \in player_seasons : ps.player_id = player_id /\ ps.season_id = season_id}

\* the same SELECT without FOR UPDATE: it neither waits for a lock nor takes one
LockRowUnlocked(p, at, next, player_id, field) ==
    /\ pc[p] = at
    /\ LET row == RowOf(player_id, loc[p].cm.season.id)
       IN  IF row = {}
           THEN Goto(p, "done", [loc[p] EXCEPT !.cm = None, !.result = "err"])
           ELSE \E ps \in row : Goto(p, next, [loc[p] EXCEPT !.cm = (field :> ps) @@ @])
    /\ UNCHANGED <<tables, next_season, next_match, jobs>>

\* "SELECT current_elo, games_played, is_included FROM player_seasons WHERE
\* player_id = $1 AND season_id = $2 FOR UPDATE" for one player
LockRow(p, at, next, player_id, field) ==
    /\ pc[p] = at
    /\ LET key == <<player_id, loc[p].cm.season.id>>
           row == RowOf(player_id, loc[p].cm.season.id)
       IN  /\ key \notin RowsLockedByOthers(p)
           /\ IF row = {}
              THEN Goto(p, "done", [loc[p] EXCEPT !.cm = None, !.result = "err"])
              ELSE \E ps \in row :
                      Goto(p, next,
                           [loc[p] EXCEPT !.cm = (field :> ps) @@
                                                  [@ EXCEPT !.locks = @ \cup {key}]])
    /\ UNCHANGED <<tables, next_season, next_match, jobs>>

CreateMatchLock1(p) ==
    LockRow(p, "cm_lock1", "cm_lock2", loc[p].cm.player1_id, "player1_season")

CreateMatchLock2(p) ==
    LockRow(p, "cm_lock2", "cm_commit", loc[p].cm.player2_id, "player2_season")

\* two transactions each wait for the row the other has locked: the database
\* aborts one of them, whose handler returns the database error
CreateMatchDeadlock(p) ==
    /\ pc[p] = "cm_lock2"
    /\ \E q \in Procs \ {p} :
          /\ pc[q] = "cm_lock2"
          /\ <<loc[p].cm.player2_id, loc[p].cm.season.id>> \in LockedRows(q)
          /\ <<loc[q].cm.player2_id, loc[q].cm.season.id>> \in LockedRows(p)
    /\ Goto(p, "done", [loc[p] EXCEPT !.cm = None, !.result = "err"])
    /\ UNCHANGED <<tables, next_season, next_match, jobs>>

\* "(num_games - 1 - i) * 5" minutes before submitted_at; the code counts the
\* games from 0, the model from 1
GamePlayedAt(submitted_at, num_games, i) ==
    submitted_at - (num_games - i) * GameMinutes

NewMatch(cm, id) ==
    [id |-> id, player1_id |-> cm.player1_id, player2_id |-> cm.player2_id,
     submitted_at |-> cm.submitted_at, season_id |-> cm.season.id]

\* player1_id of a game is always the winner, player2_id the loser
NewGames(cm, id) ==
    {[id |-> <<id, i>>, match_id |-> id,
      player1_id |-> IF cm.winners[i] = 1 THEN cm.player1_id ELSE cm.player2_id,
      player2_id |-> IF cm.winners[i] = 1 THEN cm.player2_id ELSE cm.player1_id,
      played_at |-> GamePlayedAt(cm.submitted_at, Len(cm.winners), i),
      season_id |-> cm.season.id] : i \in 1..Len(cm.winners)}

LiveChanges(cm, id) ==
    LET k(games_played) ==
            calculate_dynamic_k_factor(cm.season.k_factor, cm.season.base_k_factor,
                cm.season.new_player_k_bonus, cm.season.new_player_bonus_period,
                games_played)
    IN  calculate_match_elo_changes(
            cm.player1_season.current_elo, cm.player2_season.current_elo,
            [i \in 1..Len(cm.winners) |-> [game_id |-> <<id, i>>, winner |-> cm.winners[i]]],
            k(cm.player1_season.games_played), k(cm.player2_season.games_played))

\* the elo_history rows of a live match; created_at is left to the column default
LiveRows(cm, id) ==
    LET ch == LiveChanges(cm, id)
    IN  [j \in 1..(2 * Len(ch)) |->
            LET i == (j + 1) \div 2
            IN  IF j % 2 = 1
                THEN HistoryRow(cm.player1_id, ch[i].game_id, ch[i].player1_elo_before,
                                ch[i].player1_elo_after, cm.season.id, None)
                ELSE HistoryRow(cm.player2_id, ch[i].game_id, ch[i].player2_elo_before,
                                ch[i].player2_elo_after, cm.season.id, None)]

\* an UPDATE that counts the match, not its games, in games_played
LiveStatsPerMatch(rows, cm, id) ==
    LET ch == LiveChanges(cm, id)
        n == Len(cm.winners)
        w1 == Cardinality({i \in 1..n : cm.winners[i] = 1})
        w2 == Cardinality({i \in 1..n : cm.winners[i] = 2})
    IN  {IF ps.season_id = cm.season.id /\ ps.player_id = cm.player1_id
         THEN [ps EXCEPT !.current_elo = ch[n].player1_elo_after,
                         !.games_played = @ + 1, !.wins = @ + w1, !.losses = @ + w2]
         ELSE IF ps.season_id = cm.season.id /\ ps.player_id = cm.player2_id
         THEN [ps EXCEPT !.current_elo = ch[n].player2_elo_after,
                         !.games_played = @ + 1, !.wins = @ + w2, !.losses = @ + w1]
         ELSE ps : ps \in rows}

\* "UPDATE player_seasons SET current_elo = $1, games_played = games_played + $2,
\* wins = wins + $3, losses = losses + $4 WHERE player_id = $5 AND season_id = $6"
LiveStats(rows, cm, id) ==
    LET ch == LiveChanges(cm, id)
        n == Len(cm.winners)
        w1 == Cardinality({i \in 1..n : cm.winners[i] = 1})
        w2 == Cardinality({i \in 1..n : cm.winners[i] = 2})
    IN  {IF ps.season_id = cm.season.id /\ ps.player_id = cm.player1_id
         THEN [ps EXCEPT !.current_elo = ch[n].player1_elo_after,
                         !.games_played = @ + n, !.wins = @ + w1, !.losses = @ + w2]
         ELSE IF ps.season_id = cm.season.id /\ ps.player_id = cm.player2_id
         THEN [ps EXCEPT !.current_elo = ch[n].player2_elo_after,
                         !.games_played = @ + n, !.wins = @ + w2, !.losses = @ + w1]
         ELSE ps : ps \in rows}

\* matches.rs 231-503: the is_included checks, the INSERTs and UPDATEs, COMMIT
CreateMatchCommit(p) ==
    /\ pc[p] = "cm_commit"
    /\ LET cm == loc[p].cm
           id == next_match
           ch == LiveChanges(cm, id)
           n == Len(cm.winners)
       IN  IF ~cm.player1_season.is_included \/ ~cm.player2_season.is_included
           THEN /\ Goto(p, "done", [loc[p] EXCEPT !.cm = None, !.result = "err"])
                /\ UNCHANGED <<tables, next_season, next_match, jobs>>
           ELSE /\ matches' = matches \cup {NewMatch(cm, id)}
                /\ games' = games \cup NewGames(cm, id)
                /\ elo_history' = elo_history \cup WithIds(LiveRows(cm, id), UsedHistoryIds)
                /\ player_seasons' = LiveStats(player_seasons, cm, id)
                /\ players' = [players EXCEPT
                                  ![cm.player1_id].current_elo = ch[n].player1_elo_after,
                                  ![cm.player2_id].current_elo = ch[n].player2_elo_after]
                /\ next_match' = id + 1
                /\ Goto(p, "done", [loc[p] EXCEPT !.cm = None, !.mid = id, !.result = "ok"])
                /\ UNCHANGED <<seasons, next_season, jobs, elo_configurations>>

\* ------------------------------------------------------------- delete_match
\* "SELECT season_id FROM matches WHERE id = $1"
DeleteMatchCall(p, match_id) ==
    /\ pc[p] = "idle"
    /\ LET found == {m \in matches : m.id = match_id}
       IN  IF found = {}
           THEN Goto(p, "done", [IdleLoc EXCEPT !.op = "delete_match", !.result = "err"])
           ELSE \E m \in found :
                   Goto(p, "dm_delete",
                        [IdleLoc EXCEPT !.op = "delete_match", !.mid = match_id,
                                        !.rsid = m.season_id])
    /\ UNCHANGED <<tables, next_season, next_match, jobs>>

\* "DELETE FROM matches WHERE id = $1": cascades to games and elo_history
DeleteMatchDelete(p) ==
    /\ pc[p] = "dm_delete"
    /\ matches' = {m \in matches : m.id # loc[p].mid}
    /\ games' = {g \in games : g.match_id # loc[p].mid}
    /\ elo_history' = {h \in elo_history : h.game_id[1] # loc[p].mid}
    /\ Goto(p, "rc_season", loc[p])
    /\ UNCHANGED <<seasons, player_seasons, players, next_season, next_match, jobs,
                   elo_configurations>>

\* ------------------------------------------------------------ delete_season
\* "SELECT * FROM seasons WHERE start_date < $1 ORDER BY start_date DESC LIMIT 1"
PrecedingSeasons(season) ==
    LET before == {s \in seasons : s.start_date < season.start_date}
    IN  {s \in before : \A o \in before : o.start_date <= s.start_date}

\* get_season_by_id and the target season, before the transaction
DeleteSeasonCall(p, season_id) ==
    /\ pc[p] = "idle"
    /\ IF SeasonById(season_id) = {}
       THEN Goto(p, "done", [IdleLoc EXCEPT !.op = "delete_season", !.result = "err"])
       ELSE \E season \in SeasonById(season_id) :
               \/ /\ PrecedingSeasons(season) = {}
                  /\ Goto(p, "ds_move",
                          [IdleLoc EXCEPT !.op = "delete_season", !.sid = season_id,
                              !.ds = [has_target |-> FALSE, target |-> None],
                              !.start_date = season.start_date])
               \/ \E target \in PrecedingSeasons(season) :
                     Goto(p, "ds_move",
                          [IdleLoc EXCEPT !.op = "delete_season", !.sid = season_id,
                              !.ds = [has_target |-> TRUE, target |-> target.id],
                              !.start_date = target.start_date])
    /\ UNCHANGED <<tables, next_season, next_match, jobs>>

\* the rows "UPDATE ... SET season_id = $1 WHERE season_id = $2" affects
MovedFrom(rows, from) == {r \in rows : r.season_id = from}

MovedTo(rows, from, ds) ==
    {IF r.season_id = from /\ ds.has_target THEN [r EXCEPT !.season_id = ds.target] ELSE r :
        r \in rows}

\* a delete_season whose first step runs on the pool instead of the transaction:
\* the matches and games move at once
DeleteSeasonMoveOnPool(p) ==
    /\ pc[p] = "ds_move"
    /\ IF ~loc[p].ds.has_target /\ \E m \in matches : m.season_id = loc[p].sid
       THEN /\ Goto(p, "done", [loc[p] EXCEPT !.ds = None, !.result = "err"])
            /\ UNCHANGED <<matches, games>>
       ELSE /\ Goto(p, "ds_commit", loc[p])
            /\ matches' = MovedTo(matches, loc[p].sid, loc[p].ds)
            /\ games' = MovedTo(games, loc[p].sid, loc[p].ds)
    /\ UNCHANGED <<seasons, player_seasons, players, elo_history, next_season, next_match, jobs,
                   elo_configurations>>

\* a delete_season without the test of the match count
DeleteSeasonMoveUnchecked(p) ==
    /\ pc[p] = "ds_move"
    /\ Goto(p, "ds_commit", loc[p])
    /\ UNCHANGED <<tables, next_season, next_match, jobs>>

\* BEGIN; step 1: move the matches and games to the target, or refuse when there
\* is no target and the season has matches
DeleteSeasonMove(p) ==
    /\ pc[p] = "ds_move"
    /\ IF ~loc[p].ds.has_target /\ \E m \in matches : m.season_id = loc[p].sid
       THEN Goto(p, "done", [loc[p] EXCEPT !.ds = None, !.result = "err"])
       ELSE Goto(p, "ds_commit", loc[p])
    /\ UNCHANGED <<tables, next_season, next_match, jobs>>

\* steps 2-4 and COMMIT: the season's ledger rows, Participation rows and the
\* season row are deleted; then recalculate_seasons_from(recalc_from)
DeleteSeasonCommit(p) ==
    /\ pc[p] = "ds_commit"
    /\ loc[p].sid \notin LockedByOthers(p)
    /\ matches' = MovedTo(matches, loc[p].sid, loc[p].ds)
    /\ games' = MovedTo(games, loc[p].sid, loc[p].ds)
    /\ elo_history' = {h \in elo_history : h.season_id # loc[p].sid}
    /\ player_seasons' = {ps \in player_seasons : ps.season_id # loc[p].sid}
    /\ seasons' = {s \in seasons : s.id # loc[p].sid}
    /\ Goto(p, "rf_select",
            [loc[p] EXCEPT !.ds = [moved_matches |-> {m.id : m \in MovedFrom(matches, loc[p].sid)},
                                   moved_games |-> {g.id : g \in MovedFrom(games, loc[p].sid)}]
                                    @@ @])
    /\ UNCHANGED <<players, next_season, next_match, jobs, elo_configurations>>

\* a statement of delete_season's transaction fails: "?" returns the error and
\* the dropped transaction rolls back
DeleteSeasonFail(p) ==
    /\ pc[p] \in {"ds_move", "ds_commit"}
    /\ Goto(p, "done", [loc[p] EXCEPT !.result = "err"])
    /\ UNCHANGED <<tables, next_season, next_match, jobs>>

\* ---------------------------------------------------------- activate_season
\* handlers/seasons.rs 267-279: the season must exist; then BEGIN
ActivateSeasonCall(p, season_id) ==
    /\ pc[p] = "idle"
    /\ IF SeasonById(season_id) = {}
       THEN Goto(p, "done", [IdleLoc EXCEPT !.op = "activate_season", !.result = "err"])
       ELSE Goto(p, "as_deactivate",
                 [IdleLoc EXCEPT !.op = "activate_season", !.sid = season_id])
    /\ UNCHANGED <<tables, next_season, next_match, jobs>>

ActivateSeasonDeactivate(p) == DeactivateAll(p, "as_deactivate", "as_wait", "as_commit")
ActivateSeasonResume(p) == DeactivateResume(p, "as_wait", "as_commit")

Activated(rows, id) ==
    {IF s.id = id THEN [s EXCEPT !.is_active = TRUE] ELSE s : s \in rows}

\* "UPDATE seasons SET is_active = true WHERE id = $1"; COMMIT
ActivateSeasonCommit(p) ==
    /\ pc[p] = "as_commit"
    /\ seasons' = Activated(Deactivated(seasons, loc[p].deact), loc[p].sid)
    /\ Goto(p, "done", [loc[p] EXCEPT !.deact = {}, !.result = "ok"])
    /\ UNCHANGED <<player_seasons, players, matches, games, elo_history,
                   next_season, next_match, jobs, elo_configurations>>

\* ------------------------------------------------------------ specification
InitTables ==
    /\ seasons = {}
    /\ player_seasons = {}
    /\ players = [q \in Players |-> [current_elo |-> DefaultElo * Cents, is_active |-> TRUE]]
    /\ matches = {}
    /\ games = {}
    /\ elo_history = {}
    /\ next_season = 1
    /\ next_match = 1
    /\ jobs = {}
    /\ elo_configurations = {NamedConfig}

InitProcs(n) ==
    /\ pc = [p \in 1..n |-> "idle"]
    /\ loc = [p \in 1..n |-> IdleLoc]

AllActivePlayers == [given |-> FALSE]

\* the statements of the season lifecycle, of reassignment and of recalculation
SeasonSteps(p) ==
    \/ CreateSeasonDeactivate(p)
    \/ CreateSeasonResume(p)
    \/ CreateSeasonCommit(p)
    \/ CreateSeasonInit(p)
    \/ CleanupSeason(p)
    \/ ReassignMatches(p)
    \/ ReassignGames(p)
    \/ RecalcFromSelect(p)
    \/ RecalcFromNext(p)

RecalcSteps(p) ==
    \/ RecalcSeason(p)
    \/ RecalcMatches(p)
    \/ RecalcMembers(p)
    \/ RecalcDelete(p)
    \/ RecalcReplay(p)
    \/ RecalcPersist(p)
    \/ RecalcCommit(p)

MatchSteps(p) ==
    \/ CreateMatchLock1(p)
    \/ CreateMatchLock2(p)
    \/ CreateMatchCommit(p)
    \/ DeleteMatchDelete(p)

\* the database after create_season(start_date 0, static K, all active players)
\* on the empty database
InitOneSeason ==
    /\ seasons = {SeasonRow(1, 0, StaticConfig, TRUE)}
    /\ player_seasons = {PlayerSeasonRow(q, 1, StaticConfig.starting_elo) : q \in Players}
    /\ players = [q \in Players |-> [current_elo |-> DefaultElo * Cents, is_active |-> TRUE]]
    /\ matches = {}
    /\ games = {}
    /\ elo_history = {}
    /\ next_season = 2
    /\ next_match = 1
    /\ jobs = {}
    /\ elo_configurations = {NamedConfig}

\* live recording, match deletion and recalculation of one season, one
\* connection at a time
NextLedger ==
    \E p \in {1} :
        \/ \E a, b \in Players, w \in GameSeqs, t \in Times : CreateMatchCall(p, a, b, w, t)
        \/ \E m \in MatchIds : DeleteMatchCall(p, m)
        \/ \E s \in SeasonIdsNow : RecalcCall(p, s)
        \/ RecalcSteps(p)
        \/ RecalcFail(p)
        \/ MatchSteps(p)
        \/ Return(p)

InitLedger == InitOneSeason /\ InitProcs(1)

SpecLedger == InitLedger /\ [][NextLedger]_vars

\* the season lifecycle on two connections, from the empty database.  No match
\* is ever recorded here, so every recalculate_season_elo returns at
\* "if matches.is_empty()".
NextSeasons ==
    \E p \in {1, 2} :
        \/ \E t \in Times : CreateSeasonCall(p, t, StaticConfig, AllActivePlayers)
        \/ \E s \in SeasonIds : ActivateSeasonCall(p, s)
        \/ \E s \in SeasonIds : DeleteSeasonCall(p, s)
        \/ SeasonSteps(p)
        \/ ActivateSeasonDeactivate(p)
        \/ ActivateSeasonResume(p)
        \/ ActivateSeasonCommit(p)
        \/ DeleteSeasonMove(p)
        \/ DeleteSeasonCommit(p)
        \/ RecalcSeason(p)
        \/ RecalcMatches(p)
        \/ Return(p)

InitSeasons == InitTables /\ InitProcs(2)

SpecSeasons == InitSeasons /\ [][NextSeasons]_vars

\* seasons created and deleted around recorded matches, reassignment and
\* recalculation, on one connection (which never waits for a row lock and never
\* finds a season gone under it)
NextPartition ==
    \E p \in {1} :
        \/ \E t \in Times : CreateSeasonCall(p, t, StaticConfig, AllActivePlayers)
        \/ \E t \in Times : CreateMatchCall(p, 1, 2, <<1>>, t)
        \/ \E s \in SeasonIds : DeleteSeasonCall(p, s)
        \/ \E s \in SeasonIdsNow : RecalcCall(p, s)
        \/ ReassignCall(p)
        \/ CreateSeasonDeactivate(p)
        \/ CreateSeasonCommit(p)
        \/ CreateSeasonInit(p)
        \/ ReassignMatches(p)
        \/ ReassignGames(p)
        \/ RecalcFromSelect(p)
        \/ RecalcFromNext(p)
        \/ RecalcSteps(p)
        \/ CreateMatchLock1(p)
        \/ CreateMatchLock2(p)
        \/ CreateMatchCommit(p)
        \/ DeleteSeasonMove(p)
        \/ DeleteSeasonCommit(p)
        \/ Return(p)

InitPartition == InitTables /\ InitProcs(1)

SpecPartition == InitPartition /\ [][NextPartition]_vars

\* the requests POST /seasons is tried with: names by length, ratings and
\* K-factors inside and outside the accepted ranges, every presence pattern of
\* the dynamic-K triple
RequestNames ==
    {[len |-> 0, trimmed |-> 0], [len |-> 3, trimmed |-> 0], [len |-> 10, trimmed |-> 10],
     [len |-> MAX_SEASON_NAME_LENGTH + 1, trimmed |-> MAX_SEASON_NAME_LENGTH + 1],
     [len |-> ServiceMaxNameLength + 1, trimmed |-> ServiceMaxNameLength + 1]}

RequestConfigs ==
    [starting_elo : {-100, 50 * Cents, DefaultElo * Cents, (MAX_STARTING_ELO + 1) * Cents},
     k_factor : {0, 50, DefaultK * Cents, (MAX_K_FACTOR + 1) * Cents},
     base_k_factor : {None, 20 * Cents, (MAX_K_FACTOR + 1) * Cents},
     new_player_k_bonus : {None, 16 * Cents},
     new_player_bonus_period : {None, 0, 10},
     elo_version : {None}]

\* season creation over HTTP on a database that holds one season and no match
NextCreate ==
    \E p \in {1} :
        \/ \E name \in RequestNames, cfg \in RequestConfigs :
              CreateSeasonRequest(p, name, TimeStep, cfg, AllActivePlayers)
        \/ CreateSeasonDeactivate(p)
        \/ CreateSeasonCommit(p)
        \/ CreateSeasonInit(p)
        \/ ReassignMatches(p)
        \/ ReassignGames(p)
        \/ RecalcFromSelect(p)
        \/ RecalcFromNext(p)
        \/ RecalcSeason(p)
        \/ RecalcMatches(p)
        \/ Return(p)

InitCreate == InitOneSeason /\ InitProcs(1)

SpecCreate == InitCreate /\ [][NextCreate]_vars

\* season creation with failing statements in initialization, reassignment and
\* recalculation, on a database with one season and its matches
NextCompensate ==
    \E p \in {1} :
        \/ \E t \in Times : CreateSeasonCall(p, t, StaticConfig, AllActivePlayers)
        \/ \E t \in Times : CreateMatchCall(p, 1, 2, <<1>>, t)
        \/ CreateMatchLock1(p)
        \/ CreateMatchLock2(p)
        \/ CreateMatchCommit(p)
        \/ CreateSeasonDeactivate(p)
        \/ CreateSeasonCommit(p)
        \/ CreateSeasonInit(p)
        \/ CreateSeasonInitFail(p)
        \/ CreateSeasonInitCleanup(p)
        \/ ReassignMatches(p)
        \/ ReassignGames(p)
        \/ ReassignFail(p)
        \/ RecalcFromSelect(p)
        \/ RecalcFromNext(p)
        \/ RecalcSteps(p)
        \/ RecalcFail(p)
        \/ CleanupSeason(p)
        \/ Return(p)

InitCompensate == InitOneSeason /\ InitProcs(1)

SpecCompensate == InitCompensate /\ [][NextCompensate]_vars

\* the database after InitialSeasons calls of create_season (static K, all
\* active players) with ascending start dates on the empty database: the last
\* season is the active one
InitSeasonsInOrder ==
    /\ seasons = {SeasonRow(i, (i - 1) * TimeStep, StaticConfig, i = InitialSeasons) :
                      i \in 1..InitialSeasons}
    /\ player_seasons = {PlayerSeasonRow(q, i, StaticConfig.starting_elo) :
                            q \in Players, i \in 1..InitialSeasons}
    /\ players = [q \in Players |-> [current_elo |-> DefaultElo * Cents, is_active |-> TRUE]]
    /\ matches = {}
    /\ games = {}
    /\ elo_history = {}
    /\ next_season = InitialSeasons + 1
    /\ next_match = 1
    /\ jobs = {}
    /\ elo_configurations = {NamedConfig}

\* seasons activated and deleted around recorded matches, with failing
\* statements in delete_season's transaction and in the recalculations
NextDelete ==
    \E p \in {1} :
        \/ \E s \in 1..InitialSeasons : ActivateSeasonCall(p, s)
        \/ \E t \in Times : CreateMatchCall(p, 1, 2, <<1>>, t)
        \/ \E s \in 1..InitialSeasons : DeleteSeasonCall(p, s)
        \/ ActivateSeasonDeactivate(p)
        \/ ActivateSeasonCommit(p)
        \/ RecalcFromSelect(p)
        \/ RecalcFromNext(p)
        \/ RecalcSteps(p)
        \/ RecalcFail(p)
        \/ CreateMatchLock1(p)
        \/ CreateMatchLock2(p)
        \/ CreateMatchCommit(p)
        \/ DeleteSeasonMove(p)
        \/ DeleteSeasonCommit(p)
        \/ DeleteSeasonFail(p)
        \/ Return(p)

InitDelete == InitSeasonsInOrder /\ InitProcs(1)

SpecDelete == InitDelete /\ [][NextDelete]_vars

\* the database after create_season(start_date 0, dynamic K, all active
\* players) on the empty database
InitDynamicSeason ==
    /\ seasons = {SeasonRow(1, 0, DynamicConfig, TRUE)}
    /\ player_seasons = {PlayerSeasonRow(q, 1, DynamicConfig.starting_elo) : q \in Players}
    /\ players = [q \in Players |-> [current_elo |-> DefaultElo * Cents, is_active |-> TRUE]]
    /\ matches = {}
    /\ games = {}
    /\ elo_history = {}
    /\ next_season = 2
    /\ next_match = 1
    /\ jobs = {}
    /\ elo_configurations = {NamedConfig}

\* two connections submitting matches at the same time
NextLive ==
    \E p \in {1, 2} :
        \/ \E a, b \in Players, w \in GameSeqs : CreateMatchCall(p, a, b, w, TimeStep)
        \/ CreateMatchLock1(p)
        \/ CreateMatchLock2(p)
        \/ CreateMatchDeadlock(p)
        \/ CreateMatchCommit(p)
        \/ Return(p)

InitLive == InitDynamicSeason /\ InitProcs(2)

SpecLive == InitLive /\ [][NextLive]_vars

\* recalculations started over HTTP, per configuration and per season, around
\* recorded matches
NextJobs ==
    \E p \in {1} :
        \/ \E w \in GameSeqs : CreateMatchCall(p, 1, 2, w, TimeStep)
        \/ CreateMatchLock1(p)
        \/ CreateMatchLock2(p)
        \/ CreateMatchCommit(p)
        \/ \E outcome \in {"not_found", "spawned"} : RecalculateEloCall(p, outcome)
        \/ RecalculateEloRunning(p)
        \/ RecalcAllSelect(p)
        \/ RecalcAllCommit(p)
        \/ RecalcAllFail(p)
        \/ RecalculateEloRecord(p)
        \/ \E s \in SeasonIds : RecalcCall(p, s)
        \/ RecalcSteps(p)
        \/ RecalcFail(p)
        \/ Return(p)

InitJobs == InitOneSeason /\ InitProcs(1)

SpecJobs == InitJobs /\ [][NextJobs]_vars

\* every operation that writes Participation rows, on one connection: seasons
\* created and deleted, matches of one or two games recorded and deleted,
\* seasons recalculated
NextStats ==
    \E p \in {1} :
        \/ CreateSeasonCall(p, TimeStep, StaticConfig, AllActivePlayers)
        \/ \E w \in GameSeqs : CreateMatchCall(p, 1, 2, w, TimeStep)
        \/ \E m \in MatchIds : DeleteMatchCall(p, m)
        \/ \E s \in SeasonIds : DeleteSeasonCall(p, s)
        \/ \E s \in SeasonIdsNow : RecalcCall(p, s)
        \/ CreateSeasonDeactivate(p)
        \/ CreateSeasonCommit(p)
        \/ CreateSeasonInit(p)
        \/ CleanupSeason(p)
        \/ ReassignMatches(p)
        \/ ReassignGames(p)
        \/ RecalcFromSelect(p)
        \/ RecalcFromNext(p)
        \/ RecalcSteps(p)
        \/ RecalcFail(p)
        \/ MatchSteps(p)
        \/ DeleteSeasonMove(p)
        \/ DeleteSeasonCommit(p)
        \/ Return(p)

InitStats == InitOneSeason /\ InitProcs(1)

SpecStats == InitStats /\ [][NextStats]_vars

\* the arguments the resolver is called with: static K-factors, every presence
\* pattern of the triple, a zero and a negative period, a zero and a negative
\* bonus, and games_played up to MaxPlayed
ResolverArgs ==
    [k_factor : {DefaultK * Cents, 24 * Cents},
     base_k_factor : {None, 16 * Cents},
     new_player_k_bonus : {None, -8 * Cents, 0, 16 * Cents},
     new_player_bonus_period : {None, -10, 0, 3, 10},
     games_played : 0..MaxPlayed]

\* two callers of the resolver
NextResolver ==
    \E p \in {1, 2} :
        \/ \E args \in ResolverArgs : ResolveK(p, args)
        \/ Return(p)

InitResolver == InitTables /\ InitProcs(2)

SpecResolver == InitResolver /\ [][NextResolver]_vars

\* the arguments the calculator is called with: ratings in points around the
\* default, K-factors in hundredths (the default, a newcomer's and one with an
\* odd hundredth), matches of 1..MaxGames games
CalculatorArgs ==
    [player1_starting_elo : {(DefaultElo - 100) * Cents, DefaultElo * Cents, (DefaultElo + 16) * Cents},
     player2_starting_elo : {(DefaultElo - 100) * Cents, DefaultElo * Cents, (DefaultElo + 16) * Cents},
     games : {[i \in 1..Len(w) |-> [game_id |-> <<1, i>>, winner |-> w[i]]] : w \in GameSeqs},
     player1_k_factor : {DefaultK * Cents, 40 * Cents, 2525},
     player2_k_factor : {DefaultK * Cents, 40 * Cents, 2525}]

NextCalculator ==
    \E p \in {1} :
        \/ \E args \in CalculatorArgs : CalculateMatch(p, args)
        \/ Return(p)

InitCalculator == InitTables /\ InitProcs(1)

SpecCalculator == InitCalculator /\ [][NextCalculator]_vars

\* matches between players 1 and 2 recorded on connection 1 while the season
\* is recalculated on connection 2
NextRace ==
    \E p \in {1, 2} :
        \/ \E w \in GameSeqs : p = 1 /\ CreateMatchCall(p, 1, 2, w, TimeStep)
        \/ p = 2 /\ RecalcCall(p, 1)
        \/ RecalcSteps(p)
        \/ RecalcFail(p)
        \/ CreateMatchLock1(p)
        \/ CreateMatchLock2(p)
        \/ CreateMatchCommit(p)
        \/ Return(p)

InitRace == InitOneSeason /\ InitProcs(2)

SpecRace == InitRace /\ [][NextRace]_vars

\* the database after POST /seasons (start_date 0, the default parameters,
\* elo_version 3, all active players) with the configurations 2 and 3 present
InitVersionedSeason ==
    /\ seasons = {SeasonRow(1, 0, [StaticConfig EXCEPT !.elo_version = 3], TRUE)}
    /\ player_seasons = {PlayerSeasonRow(q, 1, StaticConfig.starting_elo) : q \in Players}
    /\ players = [q \in Players |-> [current_elo |-> DefaultElo * Cents, is_active |-> TRUE]]
    /\ matches = {}
    /\ games = {}
    /\ elo_history = {}
    /\ next_season = 2
    /\ next_match = 1
    /\ jobs = {}
    /\ elo_configurations = {NamedConfig, TournamentConfig}

\* matches recorded in ascending submitted_at order, recalculations of the
\* season and of a season id that does not exist, and the deletion of
\* configurations, on one connection
NextConfig ==
    \E p \in {1} :
        \/ \E a, b \in Players, w \in GameSeqs :
              CreateMatchCall(p, a, b, w, TimeStep * next_match)
        \/ \E s \in SeasonIds : RecalcCall(p, s)
        \/ \E v \in {2, 3} : DeleteEloConfig(p, v)
        \/ RecalcSteps(p)
        \/ CreateMatchLock1(p)
        \/ CreateMatchLock2(p)
        \/ CreateMatchCommit(p)
        \/ Return(p)

InitConfig == InitVersionedSeason /\ InitProcs(1)

SpecConfig == InitConfig /\ [][NextConfig]_vars

\* matches of one or more games recorded in a dynamic-K season in ascending
\* submitted_at order, and recalculations of the season, on one connection
NextReplay ==
    \E p \in {1} :
        \/ \E a, b \in Players, w \in GameSeqs :
              CreateMatchCall(p, a, b, w, TimeStep * next_match)
        \/ RecalcCall(p, 1)
        \/ RecalcSteps(p)
        \/ CreateMatchLock1(p)
        \/ CreateMatchLock2(p)
        \/ CreateMatchCommit(p)
        \/ Return(p)

InitReplay == InitDynamicSeason /\ InitProcs(1)

SpecReplay == InitReplay /\ [][NextReplay]_vars

\* a second season created for all active players or for player 1 alone, around
\* recorded matches, and recalculations, on one connection
NextMembers ==
    \E p \in {1} :
        \/ \E t \in Times, w \in GameSeqs : CreateMatchCall(p, 1, 2, w, t)
        \/ \E t \in Times, ids \in {AllActivePlayers, [given |-> TRUE, ids |-> {1}]} :
              CreateSeasonCall(p, t, StaticConfig, ids)
        \/ \E s \in SeasonIdsNow : RecalcCall(p, s)
        \/ CreateSeasonDeactivate(p)
        \/ CreateSeasonCommit(p)
        \/ CreateSeasonInit(p)
        \/ ReassignMatches(p)
        \/ ReassignGames(p)
        \/ RecalcFromSelect(p)
        \/ RecalcFromNext(p)
        \/ RecalcSteps(p)
        \/ CreateMatchLock1(p)
        \/ CreateMatchLock2(p)
        \/ CreateMatchCommit(p)
        \/ Return(p)

InitMembers == InitOneSeason /\ InitProcs(1)

SpecMembers == InitMembers /\ [][NextMembers]_vars

\* seasons created in any order of start dates on the empty database, around
\* recorded matches, with recalculations that can fail, on one connection
NextOrder ==
    \E p \in {1} :
        \/ \E t \in Times : CreateSeasonCall(p, t, StaticConfig, AllActivePlayers)
        \/ \E t \in Times : CreateMatchCall(p, 1, 2, <<1>>, t)
        \/ CreateMatchLock1(p)
        \/ CreateMatchLock2(p)
        \/ CreateMatchCommit(p)
        \/ CreateSeasonDeactivate(p)
        \/ CreateSeasonCommit(p)
        \/ CreateSeasonInit(p)
        \/ ReassignMatches(p)
        \/ ReassignGames(p)
        \/ RecalcFromSelect(p)
        \/ RecalcFromNext(p)
        \/ RecalcSteps(p)
        \/ RecalcFail(p)
        \/ CleanupSeason(p)
        \/ Return(p)

InitOrder == InitTables /\ InitProcs(1)

SpecOrder == InitOrder /\ [][NextOrder]_vars

\* the database after create_season(start_date 0, static K, all active
\* players) and one create_match (player 1 beats player 2 in one game,
\* submitted_at TimeStep) on the empty database
FirstMatch ==
    [season |-> SeasonRow(1, 0, StaticConfig, TRUE), player1_id |-> 1, player2_id |-> 2,
     winners |-> <<1>>, submitted_at |-> TimeStep, locks |-> {},
     player1_season |-> PlayerSeasonRow(1, 1, StaticConfig.starting_elo),
     player2_season |-> PlayerSeasonRow(2, 1, StaticConfig.starting_elo)]

InitRecordedMatch ==
    /\ seasons = {SeasonRow(1, 0, StaticConfig, TRUE)}
    /\ player_seasons =
          LiveStats({PlayerSeasonRow(q, 1, StaticConfig.starting_elo) : q \in Players},
                    FirstMatch, 1)
    /\ players = [q \in Players |->
                     [current_elo |-> IF q = 1 THEN LiveChanges(FirstMatch, 1)[1].player1_elo_after
                                      ELSE IF q = 2
                                      THEN LiveChanges(FirstMatch, 1)[1].player2_elo_after
                                      ELSE DefaultElo * Cents,
                      is_active |-> TRUE]]
    /\ matches = {NewMatch(FirstMatch, 1)}
    /\ games = NewGames(FirstMatch, 1)
    /\ elo_history = WithIds(LiveRows(FirstMatch, 1), {})
    /\ next_season = 2
    /\ next_match = 2
    /\ jobs = {}
    /\ elo_configurations = {NamedConfig}

\* recalculations of the season requested on two connections at the same time
NextOverlap ==
    \E p \in {1, 2} :
        \/ RecalcCall(p, 1)
        \/ RecalcSteps(p)
        \/ RecalcFail(p)
        \/ Return(p)

InitOverlap == InitRecordedMatch /\ InitProcs(2)

SpecOverlap == InitOverlap /\ [][NextOverlap]_vars

\* a second season created, for all active players or for player 1 alone, on
\* the database that holds one season and one recorded match, with a
\* reassignment and recalculations that can fail, on one connection
NextUndo ==
    \E p \in {1} :
        \/ \E t \in Times, ids \in {AllActivePlayers, [given |-> TRUE, ids |-> {1}]} :
              CreateSeasonCall(p, t, StaticConfig, ids)
        \/ CreateSeasonDeactivate(p)
        \/ CreateSeasonCommit(p)
        \/ CreateSeasonInit(p)
        \/ ReassignMatches(p)
        \/ ReassignGames(p)
        \/ ReassignFail(p)
        \/ RecalcFromSelect(p)
        \/ RecalcFromNext(p)
        \/ RecalcSteps(p)
        \/ RecalcFail(p)
        \/ CleanupSeason(p)
        \/ Return(p)

InitUndo == InitRecordedMatch /\ InitProcs(1)

SpecUndo == InitUndo /\ [][NextUndo]_vars

\* ------------------------------------------- initialization, id by id
\* an id that no row of players has
UnknownPlayer == NumPlayers + 1

\* the player id lists of a request: ids in any order, listed once or more
\* than once, of players that exist or not
PlayerIdLists == UNION {[1..n -> Players \cup {UnknownPlayer}] : n \in 0..MaxListed}

PlayerIdsOf(list) == [given |-> TRUE, ids |-> Range(list), list |-> list]

\* the orders in which a SELECT without ORDER BY can return the rows of S
Enumerations(S) ==
    {f \in [1..Cardinality(S) -> S] : \A i, j \in 1..Cardinality(S) : f[i] = f[j] => i = j}

\* seasons.rs 321-323, 367-374: get_season_by_id, then the ids to go through:
\* the given list as it is, or "SELECT id FROM players WHERE is_active = true"
InitializeStart(p, ret, season_id, player_ids, newloc) ==
    IF SeasonById(season_id) = {}
    THEN Goto(p, "done", [newloc EXCEPT !.result = "err"])
    ELSE \E season \in SeasonById(season_id) :
         \E todo \in (IF player_ids.given
                      THEN {player_ids.list}
                      ELSE Enumerations({q \in DOMAIN players : players[q].is_active})) :
            Goto(p, "init_loop",
                 [newloc EXCEPT !.init = [season |-> season, todo |-> todo,
                                          selected |-> Range(todo), count |-> 0,
                                          ret |-> ret]])

\* seasons.rs 172-179: create_season starts one of the two initializations
CreateSeasonInitBegin(p) ==
    /\ pc[p] = "cs_init"
    /\ "list" \in DOMAIN loc[p].player_ids \/ ~loc[p].player_ids.given
    /\ InitializeStart(p, "ra_matches", loc[p].sid, loc[p].player_ids, loc[p])
    /\ UNCHANGED <<tables, next_season, next_match, jobs>>

\* bin/create_season.rs 96: initialize_season_players run on a season that has
\* been initialized before
InitializeSeasonPlayersCall(p, season_id) ==
    /\ pc[p] = "idle"
    /\ InitializeStart(p, "done", season_id, AllActivePlayers,
                       [IdleLoc EXCEPT !.op = "initialize", !.sid = season_id])
    /\ UNCHANGED <<tables, next_season, next_match, jobs>>

\* "SELECT id FROM player_seasons WHERE player_id = $1 AND season_id = $2"
HasParticipation(player_id, season_id) ==
    \E ps \in player_seasons : ps.player_id = player_id /\ ps.season_id = season_id

\* the INSERT of one iteration, without the look-up that precedes it
InitializeInsertAlways(p, player_id) ==
    /\ player_seasons' = player_seasons
          \cup {PlayerSeasonRow(player_id, loc[p].init.season.id,
                                loc[p].init.season.starting_elo)}
    /\ Goto(p, "init_loop", [loc[p] EXCEPT !.init.todo = Tail(@), !.init.count = @ + 1])

\* seasons.rs 340-357, 379-396: the row is inserted when the look-up found none
InitializeInsert(p, player_id) ==
    IF HasParticipation(player_id, loc[p].init.season.id)
    THEN /\ Goto(p, "init_loop", [loc[p] EXCEPT !.init.todo = Tail(@)])
         /\ UNCHANGED player_seasons
    ELSE /\ player_seasons' = player_seasons
               \cup {PlayerSeasonRow(player_id, loc[p].init.season.id,
                                     loc[p].init.season.starting_elo)}
         /\ Goto(p, "init_loop", [loc[p] EXCEPT !.init.todo = Tail(@), !.init.count = @ + 1])

\* seasons.rs 325-360, 376-399: one iteration of the loop, or its end with Ok(count)
InitializeStep(p) ==
    /\ pc[p] = "init_loop"
    /\ IF loc[p].init.todo = <<>>
       THEN /\ Goto(p, loc[p].init.ret,
                    [loc[p] EXCEPT !.result = IF loc[p].init.ret = "done" THEN "ok" ELSE @])
            /\ UNCHANGED player_seasons
       ELSE LET player_id == Head(loc[p].init.todo)
            IN  IF player_id \notin DOMAIN players
                THEN \* "Skipping player {} - player not found"
                     /\ Goto(p, "init_loop", [loc[p] EXCEPT !.init.todo = Tail(@)])
                     /\ UNCHANGED player_seasons
                ELSE InitializeInsert(p, player_id)
    /\ UNCHANGED <<seasons, players, matches, games, elo_history,
                   next_season, next_match, jobs, elo_configurations>>

\* a statement of the loop fails: the rows inserted so far stay; create_season
\* goes on to delete the season row (seasons.rs 180-197)
InitializeFail(p) ==
    /\ pc[p] = "init_loop"
    /\ loc[p].init.todo # <<>>
    /\ Goto(p, IF loc[p].op = "create_season" THEN "cs_init_cleanup" ELSE "done",
            [loc[p] EXCEPT !.result = "err"])
    /\ UNCHANGED <<tables, next_season, next_match, jobs>>

\* handlers/players.rs 322-343: "UPDATE players SET is_active = NOT is_active
\* WHERE id = $1", one statement on the pool
TogglePlayerActive(player_id) ==
    /\ player_id \in DOMAIN players
    /\ players' = [players EXCEPT ![player_id].is_active = ~@]
    /\ UNCHANGED <<seasons, player_seasons, matches, games, elo_history,
                   next_season, next_match, jobs, elo_configurations, pc, loc>>

\* a second season created from a player id list or for the active players,
\* initialized id by id, initializations run again, on one connection, while
\* players are switched between active and inactive
NextInitialize ==
    \/ \E p \in {1} :
        \/ \E t \in {TimeStep}, ids \in {AllActivePlayers} \cup {PlayerIdsOf(l) : l \in PlayerIdLists} :
              CreateSeasonCall(p, t, StaticConfig, ids)
        \/ CreateSeasonDeactivate(p)
        \/ CreateSeasonCommit(p)
        \/ CreateSeasonInitBegin(p)
        \/ InitializeStep(p)
        \/ InitializeFail(p)
        \/ CreateSeasonInitCleanup(p)
        \/ ReassignMatches(p)
        \/ ReassignGames(p)
        \/ RecalcFromSelect(p)
        \/ RecalcFromNext(p)
        \/ RecalcSteps(p)
        \/ \E season_id \in SeasonIdsNow : InitializeSeasonPlayersCall(p, season_id)
        \/ Return(p)
    \/ \E player_id \in Players : TogglePlayerActive(player_id)

InitInitialize == InitRecordedMatch /\ InitProcs(1)

SpecInitialize == InitInitialize /\ [][NextInitialize]_vars

\* --------------------------------------------- the detached task, scheduled
\* recalculate_elo requests on two connections, each with its detached task
NextTask ==
    \E p \in {1, 2} :
        \/ \E outcome \in {"not_found", "spawned"} : RecalculateEloCall(p, outcome)
        \/ RecalculateEloRunning(p)
        \/ RecalcAllSelect(p)
        \/ RecalcAllCommit(p)
        \/ RecalcAllFail(p)
        \/ RecalculateEloRecord(p)
        \/ Return(p)

\* handlers/elo.rs 431-471: a step of the spawned task, which the runtime
\* keeps scheduling until the task returns; whether a statement of the step
\* succeeds is not up to the runtime
TaskStep(p) ==
    \/ RecalculateEloRunning(p)
    \/ RecalcAllSelect(p)
    \/ RecalcAllCommit(p)
    \/ RecalculateEloRecord(p)

InitTask == InitRecordedMatch /\ InitProcs(2)

SpecTask == InitTask /\ [][NextTask]_vars

SpecTaskScheduled == SpecTask /\ \A p \in {1, 2} : WF_vars(TaskStep(p))

\* ------------------------------------------------------------------ claims
ActiveSeasons == {s \in seasons : s.is_active}

\* no create_season, activate_season or delete_season call is in progress
NoLifecycleCall ==
    \A p \in Procs : pc[p] \in {"idle", "done"}

\* C5: in every committed state, under any interleaving of create_season,
\* activate_season and delete_season calls, at most one season is active.
C5_AtMostOneActive == Cardinality(ActiveSeasons) <= 1

\* C6: zero active seasons is only transient: when a season exists and no
\* lifecycle call is in progress, some season is active.
C6_ZeroActiveOnlyTransient ==
    (NoLifecycleCall /\ seasons # {}) => ActiveSeasons # {}

Finished(p, ops) == pc[p] = "done" /\ loc[p].op \in ops /\ loc[p].result = "ok"

LedgerOf(season_id) == {h \in elo_history : h.season_id = season_id}
ParticipationOf(season_id) == {ps \in player_seasons : ps.season_id = season_id}
MatchesOf(season_id) == {m \in matches : m.season_id = season_id}

\* the timestamp of a ledger entry: the played_at of its game (the created_at the
\* replay writes; a live entry leaves created_at to the column default)
LedgerTime(h) ==
    IF h.created_at # None THEN h.created_at
    ELSE LET g == CHOOSE x \in games : x.id = h.game_id IN g.played_at

\* the entries of one player in one season form a chain from the starting rating
\* in some order that is ascending in the timestamp
ChainHolds(season_id) ==
    \A season \in SeasonById(season_id) : \A q \in DOMAIN players :
        LET mine == {h \in LedgerOf(season_id) : h.player_id = q}
        IN  \/ mine = {}
            \/ \E o \in OrderedBy(mine, LedgerTime) :
                  /\ o[1].elo_before = EffectiveConfig(season).starting_elo
                  /\ \A i \in 1..(Len(o) - 1) : o[i].elo_after = o[i + 1].elo_before

\* C1: after recalculate_season_elo has committed for a season, every player's
\* ledger entries of that season, sorted by timestamp, form a chain: each
\* rating_after is the next rating_before, the first rating_before is the
\* starting rating.
C1_LedgerChain ==
    \A p \in Procs : Finished(p, {"recalculate"}) => ChainHolds(loc[p].rsid)

WithoutId(h) == [f \in DOMAIN h \ {"id"} |-> h[f]]

\* the season's rows are those of a replay of the matches it holds now
RebuiltFromScratch(season_id) ==
    \A season \in SeasonById(season_id) :
        LET at(m) == m.submitted_at
            members == {ps.player_id : ps \in ParticipationOf(season_id)}
        IN  \E ms \in OrderedBy(MatchesOf(season_id), at) :
               LET st == Replay(ms, members, EffectiveConfig(season), season_id)
               IN  /\ ParticipationOf(season_id)
                        = PersistedRows(ParticipationOf(season_id), st, season_id)
                   /\ {WithoutId(h) : h \in LedgerOf(season_id)} = Range(st.rows)
                   /\ Cardinality(LedgerOf(season_id)) = Len(st.rows)

\* C3: after recalculate_season_elo(S) returned Ok, the ledger rows and the
\* Participation rows of S are those of a replay of the matches now in S from the
\* starting rating; with no match left there is no ledger row and every member
\* has the starting rating and zero games, wins and losses.
C3_RebuiltFromScratch ==
    \A p \in Procs :
        Finished(p, {"recalculate", "delete_match"}) => RebuiltFromScratch(loc[p].rsid)

\* C4: when recalculate_season_elo has committed, every member's global
\* players.current_elo is the member's final replayed rating (the rating of the
\* member's Participation row).
C4_GlobalRating ==
    \A p \in Procs :
        (Finished(p, {"recalculate"}) /\ MatchesOf(loc[p].rsid) # {})
            => \A ps \in ParticipationOf(loc[p].rsid) :
                  players[ps.player_id].current_elo = ps.current_elo

\* C2: recalculate_season_elo is all-or-nothing.  While its transaction is open,
\* a step of the recalculation leaves the committed ledger, Participation and
\* player rows as they are, except the commit, which replaces the season's
\* ledger rows wholesale and sets every member's Participation row; a failed
\* step leaves all of them as before.  (The transaction holds no statement on
\* the players table, so the Player rows are the same before and after.)
InRecalcTx(p) == pc[p] \in {"rc_delete", "rc_replay", "rc_persist", "rc_commit"}

C2_RecalcStep(p) ==
    LET rc == loc[p].rc
        s == rc.season_id
        after == {h \in elo_history' : h.season_id = s}
    IN  IF pc[p] = "rc_commit" /\ loc'[p].result # "err"
        THEN /\ after \cap LedgerOf(s) = {}
             /\ {WithoutId(h) : h \in after} = Range(rc.final.rows)
             /\ Cardinality(after) = Len(rc.final.rows)
             /\ elo_history' \ after = elo_history \ LedgerOf(s)
             /\ \A ps \in player_seasons' :
                   (ps.season_id = s /\ ps.player_id \in rc.members)
                       => /\ ps.current_elo = rc.final.elo[ps.player_id]
                          /\ ps.games_played = rc.final.games_played[ps.player_id]
                          /\ ps.wins = rc.final.wins[ps.player_id]
                          /\ ps.losses = rc.final.losses[ps.player_id]
             /\ {ps \in player_seasons' : ps.season_id # s}
                  = {ps \in player_seasons : ps.season_id # s}
             /\ players' = players
        ELSE /\ elo_history' = elo_history
             /\ player_seasons' = player_seasons
             /\ players' = players

C2_AllOrNothing ==
    [][\A p \in Procs : (InRecalcTx(p) /\ pc'[p] # pc[p]) => C2_RecalcStep(p)]_vars

\* a recalculation whose DELETE has run and whose commit is still to come, with
\* every row it deleted still in the committed ledger
C2_Witness ==
    \E p \in Procs :
        /\ pc[p] = "rc_commit"
        /\ loc[p].rc.del # {}
        /\ loc[p].rc.del \subseteq {h.id : h \in elo_history}

\* the season the partition function gives a match: a season of the greatest
\* start_date at or before submitted_at, or no season
Partitioned(m) ==
    IF HasSeasonFor(m) THEN m.season_id \in PartitionOf(m) ELSE m.season_id = None

\* C7: after reassign_games_to_seasons every match with a season at or before
\* its submitted_at is in the season of the greatest such start_date, every game
\* carries the season of its parent match, and every match that precedes every
\* season has no season assignment.
C7_ReassignPartitions ==
    \A p \in Procs :
        Finished(p, {"reassign"})
            => /\ \A m \in matches : Partitioned(m)
               /\ \A g \in games : g.season_id \in ParentSeason(g)

\* C8: while no season lifecycle call is in progress, every match that has a
\* season at or before its submitted_at is assigned to the season of the
\* greatest such start_date, whichever operation wrote the assignment.
C8_AssignmentIsPartition ==
    NoLifecycleCall => \A m \in {x \in matches : HasSeasonFor(x)} : Partitioned(m)

MatchOfGame(game_id) == CHOOSE m \in matches : m.id = game_id[1]

\* C9: a match submitted before every season's start_date contributes no ledger
\* entry to the recalculation of any season: no row a recalculation is about to
\* commit belongs to a game of such a match.
C9_OrphansExcluded ==
    \A p \in Procs :
        pc[p] = "rc_commit"
            => \A i \in DOMAIN loc[p].rc.final.rows :
                  HasSeasonFor(MatchOfGame(loc[p].rc.final.rows[i].game_id))

\* C10: reassign_games_to_seasons is idempotent: once it has completed, another
\* run on the same seasons and matches updates no match and no game, whichever
\* rows its subqueries return.
C10_ReassignIdempotent ==
    \A p \in Procs :
        Finished(p, {"reassign"})
            => /\ \A pick \in PartitionPicks : MatchesAffected(pick) = 0
               /\ GamesToInherit = {}

\* what the claim calls an invalid request: a rating or K-factor outside the
\* accepted range, an empty or over-long name, a partial dynamic-K triple
InvalidRequest(name, cfg) ==
    \/ cfg.starting_elo < MIN_STARTING_ELO * Cents
    \/ cfg.starting_elo > MAX_STARTING_ELO * Cents
    \/ cfg.k_factor < MIN_K_FACTOR * Cents
    \/ cfg.k_factor > MAX_K_FACTOR * Cents
    \/ name.len = 0
    \/ name.len > MAX_SEASON_NAME_LENGTH
    \/ Cardinality({f \in {"base_k_factor", "new_player_k_bonus",
                            "new_player_bonus_period"} : cfg[f] # None}) \in {1, 2}

\* C11: create_season called with an out-of-range starting rating or K-factor,
\* an empty or over-long name, or a partial dynamic-K triple returns an error
\* before any write: the call goes from idle straight to its error return and
\* every table is unchanged.
C11_InvalidRejected ==
    [][\A p \in Procs :
          (/\ pc[p] = "idle"
           /\ loc'[p].op = "create_season"
           /\ InvalidRequest(loc'[p].name, loc'[p].cfg))
              => /\ pc'[p] = "done"
                 /\ loc'[p].result = "err"
                 /\ tables' = tables]_vars

\* a request with only base_k_factor of the dynamic-K triple, everything else in
\* range, has been answered with an error
C11_Witness ==
    \E p \in Procs :
        /\ pc[p] = "done"
        /\ loc[p].op = "create_season"
        /\ loc[p].result = "err"
        /\ loc[p].cfg.base_k_factor # None
        /\ loc[p].cfg.new_player_k_bonus = None
        /\ loc[p].cfg.new_player_bonus_period = None
        /\ loc[p].cfg.starting_elo = DefaultElo * Cents
        /\ loc[p].cfg.k_factor = DefaultK * Cents
        /\ loc[p].name.len = 10

\* C12: once create_season has returned an error after its season row was
\* inserted, neither the new season row nor any Participation row of the new
\* season exists.
C12_Compensated ==
    \A p \in Procs :
        (/\ pc[p] = "done"
         /\ loc[p].op = "create_season"
         /\ loc[p].result = "err"
         /\ loc[p].sid # None)
            => /\ SeasonById(loc[p].sid) = {}
               /\ ParticipationOf(loc[p].sid) = {}

\* C13: delete_season on a season with no preceding season that owns a match
\* returns an error and leaves every table as it was before the call: the call
\* writes nothing before its transaction, and the transaction ends at the
\* match count with the error and no write.
C13_EarliestRefused ==
    [][\A p \in Procs :
          /\ (pc[p] = "idle" /\ pc'[p] = "ds_move") => tables' = tables
          /\ (/\ pc[p] = "ds_move"
              /\ pc'[p] # pc[p]
              /\ ~loc[p].ds.has_target
              /\ MatchesOf(loc[p].sid) # {})
                 => /\ pc'[p] = "done"
                    /\ loc'[p].result = "err"
                    /\ tables' = tables]_vars

\* delete_season has returned an error for a season that exists, owns a match
\* and has no season before it
C13_Witness ==
    \E p \in Procs :
        /\ pc[p] = "done"
        /\ loc[p].op = "delete_season"
        /\ loc[p].result = "err"
        /\ MatchesOf(loc[p].sid) # {}
        /\ \E s \in SeasonById(loc[p].sid) : PrecedingSeasons(s) = {}

\* C14: the structural changes of delete_season commit together.  A step of
\* delete_season's transaction either leaves every table as it was (the step is
\* buffered, refused or failed) or is the commit, after which the season row is
\* gone, no match, game, ledger row or Participation row references the season,
\* and every match and game of the season is in the target season.  So no
\* committed state has the season row deleted with a row still referencing it,
\* nor the matches moved with the season row still there.
C14_DeleteAtomic ==
    [][\A p \in Procs :
          (loc[p].op = "delete_season" /\ pc[p] \in {"ds_move", "ds_commit"})
             => \/ tables' = tables
                \/ /\ pc'[p] = "rf_select"
                   /\ \A s \in seasons' : s.id # loc[p].sid
                   /\ \A r \in matches' \cup games' \cup elo_history' \cup player_seasons' :
                          r.season_id # loc[p].sid
                   /\ matches' = MovedTo(matches, loc[p].sid, loc[p].ds)
                   /\ games' = MovedTo(games, loc[p].sid, loc[p].ds)
                   /\ MatchesOf(loc[p].sid) # {} => loc[p].ds.has_target]_vars

\* delete_season has committed the deletion of a season whose match and games
\* moved to the preceding season
C14_Witness ==
    \E p \in Procs :
        /\ pc[p] = "rf_select"
        /\ loc[p].op = "delete_season"
        /\ loc[p].ds.moved_matches # {}
        /\ loc[p].ds.moved_games # {}
        /\ SeasonById(loc[p].sid) = {}
        /\ \E m \in matches : m.id \in loc[p].ds.moved_matches /\ m.season_id = loc[p].ds.target

\* the start date of the season with the given id
StartOf(season_id) == (CHOOSE s \in seasons : s.id = season_id).start_date

\* C15: when delete_season(S) has returned Ok and S had a preceding season P,
\* every match and game that was in S is assigned to P, and the seasons
\* recalculated by the call are exactly P and every season starting after P,
\* each once, in ascending start_date order; no recalculation has run before
\* the deletion committed.
C15_MovedThenRecalculated ==
    \A p \in Procs :
        /\ (loc[p].op = "delete_season" /\ pc[p] \in {"ds_move", "ds_commit", "rf_select"})
               => loc[p].recalculated = <<>>
        /\ (Finished(p, {"delete_season"}) /\ loc[p].ds.has_target)
               => LET done == loc[p].recalculated
                      P == loc[p].ds.target
                  IN  /\ \A r \in matches : r.id \in loc[p].ds.moved_matches => r.season_id = P
                      /\ \A g \in games : g.id \in loc[p].ds.moved_games => g.season_id = P
                      /\ SeasonById(loc[p].sid) = {}
                      /\ SeasonById(P) # {}
                      /\ {done[i] : i \in 1..Len(done)}
                            = {s.id : s \in {t \in seasons : t.start_date >= StartOf(P)}}
                      /\ \A i, j \in 1..Len(done) :
                            i < j => /\ done[i] # done[j]
                                     /\ StartOf(done[i]) <= StartOf(done[j])
                      /\ done[1] = P

\* delete_season has returned Ok after moving a match and its game to the
\* preceding season and recalculating that season and a later one
C15_Witness ==
    \E p \in Procs :
        /\ Finished(p, {"delete_season"})
        /\ loc[p].ds.has_target
        /\ loc[p].ds.moved_matches # {}
        /\ loc[p].ds.moved_games # {}
        /\ Len(loc[p].recalculated) >= 2
        /\ loc[p].recalculated[1] = loc[p].ds.target

\* the winners of a committed match, read back from its games (player1 of a
\* game is its winner)
WinnersOf(m) ==
    [i \in 1..Cardinality({g \in games : g.match_id = m.id}) |->
        IF (CHOOSE g \in games : g.id = <<m.id, i>>).player1_id = m.player1_id THEN 1 ELSE 2]

\* the Participation rows after the first n committed matches have been
\* submitted one after the other, each reading the rows the one before left
RECURSIVE SerialRows(_)
SerialRows(n) ==
    IF n = 0 THEN {PlayerSeasonRow(q, 1, DynamicConfig.starting_elo) : q \in Players}
    ELSE LET before == SerialRows(n - 1)
             m == CHOOSE x \in matches : x.id = n
             row(q) == CHOOSE ps \in before : ps.player_id = q /\ ps.season_id = m.season_id
             cm == [season |-> CHOOSE s \in seasons : s.id = m.season_id,
                    player1_id |-> m.player1_id, player2_id |-> m.player2_id,
                    winners |-> WinnersOf(m), submitted_at |-> m.submitted_at,
                    player1_season |-> row(m.player1_id),
                    player2_season |-> row(m.player2_id)]
         IN  LiveStats(before, cm, n)

\* C16: of two concurrent create_match submissions that share a player, the
\* one that commits second computes from the rating and games_played the first
\* committed: a transaction's locked reading of a Participation row is the
\* committed row until it commits, and the Participation rows equal those of
\* the committed matches submitted one after the other in commit order, so no
\* update is lost.
C16_SerialOutcome ==
    /\ \A p \in Procs :
          /\ pc[p] \in {"cm_lock2", "cm_commit"} => loc[p].cm.player1_season \in player_seasons
          /\ pc[p] = "cm_commit" => loc[p].cm.player2_season \in player_seasons
    /\ player_seasons = SerialRows(next_match - 1)

\* one match is committed, a second transaction has locked both rows, now
\* changed by the first, and a third submission waits for a row it holds
C16_Witness ==
    \E p, q \in Procs :
        /\ p # q
        /\ next_match = 2
        /\ pc[p] = "cm_commit"
        /\ loc[p].cm.player1_season.games_played > 0
        /\ pc[q] = "cm_lock1"
        /\ <<loc[q].cm.player1_id, loc[q].cm.season.id>> \in LockedRows(p)

\* the detached unit of an HTTP-triggered recalculation has been spawned
DetachedUnit(p) ==
    \/ loc[p].op = "recalculate_elo" /\ pc[p] \in {"re_spawned", "re_select", "re_commit", "re_record"}
    \/ loc[p].op = "recalculate"
          /\ pc[p] \in {"rc_season", "rc_matches", "rc_members", "rc_delete", "rc_replay",
                         "rc_persist", "rc_commit"}

\* C17: every HTTP-triggered recalculation, per configuration (recalculate_elo)
\* and per season (recalculate_season), has created a job-status record and
\* holds its id before the recalculation runs, and when the detached unit has
\* failed the record has status failed.
C17_JobRecorded ==
    \A p \in Procs :
        /\ DetachedUnit(p) => \E j \in jobs : j.id = loc[p].job
        /\ (/\ pc[p] = "done"
            /\ loc[p].result = "err"
            /\ \/ loc[p].op = "recalculate"
               \/ loc[p].op = "recalculate_elo" /\ loc[p].job # None)
               => \E j \in jobs : j.id = loc[p].job /\ j.status = "failed"

\* C18: in every committed state reached by create_season, create_match,
\* delete_match, recalculate_season_elo and delete_season, every Participation
\* row has games_played = wins + losses.
C18_GamesAreWinsPlusLosses ==
    \A ps \in player_seasons : ps.games_played = ps.wins + ps.losses

\* a Participation row that counts a won and a lost game
C18_Witness ==
    \E ps \in player_seasons : ps.wins > 0 /\ ps.losses > 0 /\ ps.games_played > 1

\* the orders in which "ORDER BY submitted_at ASC" may return a season's matches
MatchOrders(season_id) ==
    LET at(m) == m.submitted_at
    IN  OrderedBy(MatchesOf(season_id), at)

\* C19: two runs of recalculate_season_elo over the same stored data produce
\* identical Participation and ledger rows, also when two matches share their
\* submitted_at: the replay a run is about to persist (ratings, games, wins,
\* losses and ledger rows) is the replay of every order in which the database
\* may return the same matches.
C19_Deterministic ==
    \A p \in Procs :
        pc[p] = "rc_replay"
           => \A ms \in MatchOrders(loc[p].rc.season_id) :
                 Replay(ms, loc[p].rc.members, loc[p].rc.cfg, loc[p].rc.season_id)
                    = Replay(loc[p].rc.matches, loc[p].rc.members, loc[p].rc.cfg,
                             loc[p].rc.season_id)

\* the K-factor create_match resolves for a locked Participation row
LiveK(cm, ps) ==
    calculate_dynamic_k_factor(cm.season.k_factor, cm.season.base_k_factor,
        cm.season.new_player_k_bonus, cm.season.new_player_bonus_period, ps.games_played)

\* C20: in calculate_match_elo_changes, when both participants have the same
\* K-factor, every game's player1 change is the exact negation of its player2
\* change, so the sum of the two ratings is the same after every game.
C20_ZeroSum ==
    \A p \in Procs :
        (pc[p] = "cm_commit"
           /\ LiveK(loc[p].cm, loc[p].cm.player1_season) = LiveK(loc[p].cm, loc[p].cm.player2_season))
           => LET ch == LiveChanges(loc[p].cm, next_match)
              IN  \A i \in 1..Len(ch) :
                     /\ ch[i].player1_elo_change = -ch[i].player2_elo_change
                     /\ ch[i].player1_elo_after + ch[i].player2_elo_after
                           = ch[1].player1_elo_before + ch[1].player2_elo_before

\* a finished call of the resolver
Resolved(p) == pc[p] = "done" /\ loc[p].op = "calculate_dynamic_k_factor"

\* the call took the dynamic branch: the triple is present and the period positive
DynamicArgs(a) ==
    /\ a.base_k_factor # None
    /\ a.new_player_k_bonus # None
    /\ a.new_player_bonus_period # None
    /\ a.new_player_bonus_period > 0

Calculated(p) == pc[p] = "done" /\ loc[p].op = "calculate_match_elo_changes"

\* half of a K-factor, in hundredths (the product K * 0.5, cut to hundredths)
HalfOf(k) == k \div 2

\* C22: with equal ratings a single game moves the winner up by exactly half
\* the winner's K-factor and the loser down by exactly half the loser's; with
\* both at 1000 and K = 32 the winner ends at 1016 and the loser at 984.
C22_HalfK ==
    \A p \in Procs :
        (Calculated(p) /\ loc[p].cfg.player1_starting_elo = loc[p].cfg.player2_starting_elo)
           => LET a == loc[p].cfg
                  first == loc[p].rc[1]
                  up(k) == a.player1_starting_elo + HalfOf(k)
                  down(k) == a.player1_starting_elo - HalfOf(k)
              IN  /\ a.games[1].winner = 1
                        => /\ first.player1_elo_change = HalfOf(a.player1_k_factor)
                           /\ first.player2_elo_change = -HalfOf(a.player2_k_factor)
                           /\ first.player1_elo_after = up(a.player1_k_factor)
                           /\ first.player2_elo_after = down(a.player2_k_factor)
                  /\ a.games[1].winner = 2
                        => /\ first.player2_elo_change = HalfOf(a.player2_k_factor)
                           /\ first.player1_elo_change = -HalfOf(a.player1_k_factor)
                           /\ first.player2_elo_after = up(a.player2_k_factor)
                           /\ first.player1_elo_after = down(a.player1_k_factor)
                  /\ (/\ a.player1_starting_elo = DefaultElo * Cents
                      /\ a.player1_k_factor = DefaultK * Cents
                      /\ a.player2_k_factor = DefaultK * Cents
                      /\ a.games[1].winner = 1)
                        => /\ first.player1_elo_after = 1016 * Cents
                           /\ first.player2_elo_after = 984 * Cents

\* the calculator has been called with both players at 1000, a single game won
\* by player 2 and different K-factors
C22_Witness ==
    \E p \in Procs :
        /\ Calculated(p)
        /\ loc[p].cfg.player1_starting_elo = DefaultElo * Cents
        /\ loc[p].cfg.player2_starting_elo = DefaultElo * Cents
        /\ Len(loc[p].cfg.games) = 1
        /\ loc[p].cfg.games[1].winner = 2
        /\ loc[p].cfg.player1_k_factor = DefaultK * Cents
        /\ loc[p].cfg.player2_k_factor = 40 * Cents
        /\ loc[p].rc[1].player2_elo_after = 1020 * Cents
        /\ loc[p].rc[1].player1_elo_after = 984 * Cents

\* the games of player q in the matches now assigned to a season
OwnedGames(season_id, q) ==
    {g \in games : /\ q \in {g.player1_id, g.player2_id}
                   /\ \E m \in matches : m.id = g.match_id /\ m.season_id = season_id}

\* C23: after create_season has returned Ok no season keeps ledger entries,
\* games, wins or losses of a match it does not own: every ledger row of a
\* season is for a game of a match assigned to that season, and every
\* Participation row counts no more games, wins and losses than the player has
\* in the matches assigned to its season.
C23_NothingKeptOfMovedMatches ==
    \A p \in Procs :
        Finished(p, {"create_season"})
            => /\ \A h \in elo_history :
                    \E m \in matches : m.id = h.game_id[1] /\ m.season_id = h.season_id
               /\ \A ps \in player_seasons :
                    LET own == OwnedGames(ps.season_id, ps.player_id)
                    IN  /\ ps.games_played <= Cardinality(own)
                        /\ ps.wins <= Cardinality({g \in own : g.player1_id = ps.player_id})
                        /\ ps.losses <= Cardinality({g \in own : g.player2_id = ps.player_id})

\* C24: a match committed by create_match into a season while a
\* recalculate_season_elo of that season is between reading the matches and
\* committing is not lost: once both have committed every game of the season's
\* matches has its two ledger rows and the Participation rows count the games,
\* wins and losses of all of the season's matches.
C24_ConcurrentMatchKept ==
    (\A p \in Procs : pc[p] \in {"idle", "done"})
        => /\ \A m \in matches : \A g \in {x \in games : x.match_id = m.id} :
                Cardinality({h \in elo_history :
                                h.game_id = g.id /\ h.season_id = m.season_id}) = 2
           /\ \A ps \in player_seasons :
                LET own == OwnedGames(ps.season_id, ps.player_id)
                IN  /\ ps.games_played = Cardinality(own)
                    /\ ps.wins = Cardinality({g \in own : g.player1_id = ps.player_id})
                    /\ ps.losses = Cardinality({g \in own : g.player2_id = ps.player_id})

\* C25: live recording and replay agree: when all matches of a season were
\* recorded through create_match in ascending submitted_at order, a commit of
\* recalculate_season_elo leaves the rating, games_played, wins and losses of
\* every member unchanged, also when the season references a named
\* configuration whose parameters differ from its own.
C25_ReplayAgreesWithLive ==
    [][\A p \in Procs :
          (pc[p] = "rc_commit" /\ pc'[p] = "done" /\ loc'[p].result = "ok")
             => player_seasons' = player_seasons]_vars

\* the configuration rows a season's elo_version names
NamedBy(season) == {c \in elo_configurations : c.version_name = season.elo_version}

\* C28: recalculate_season_elo on a season id that does not exist returns an
\* error and writes nothing; on a season whose elo_version names a
\* configuration that does not exist it does not fail and works with the
\* season's own k_factor, dynamic-K triple and starting rating; on a season
\* whose named configuration exists it works with that configuration's
\* parameters.
C28_ConfigurationChosen ==
    [][\A p \in Procs :
          /\ (pc[p] = "rc_season" /\ pc'[p] # "rc_season")
                => IF SeasonById(loc[p].rsid) = {}
                   THEN /\ pc'[p] = "done"
                        /\ loc'[p].result = "err"
                        /\ tables' = tables
                   ELSE \E season \in SeasonById(loc[p].rsid) :
                           /\ pc'[p] = "rc_matches"
                           /\ \/ /\ NamedBy(season) = {}
                                 /\ loc'[p].rc.cfg.k_factor = season.k_factor
                                 /\ loc'[p].rc.cfg.base_k_factor = season.base_k_factor
                                 /\ loc'[p].rc.cfg.new_player_k_bonus = season.new_player_k_bonus
                                 /\ loc'[p].rc.cfg.new_player_bonus_period =
                                        season.new_player_bonus_period
                                 /\ loc'[p].rc.cfg.starting_elo = season.starting_elo
                              \/ \E c \in NamedBy(season) :
                                 /\ loc'[p].rc.cfg.k_factor = c.k_factor
                                 /\ loc'[p].rc.cfg.base_k_factor = c.base_k_factor
                                 /\ loc'[p].rc.cfg.new_player_k_bonus = c.new_player_k_bonus
                                 /\ loc'[p].rc.cfg.new_player_bonus_period =
                                        c.new_player_bonus_period
                                 /\ loc'[p].rc.cfg.starting_elo = c.starting_elo
          /\ (pc[p] # "done" /\ pc'[p] = "done" /\ loc'[p].op = "recalculate"
                /\ loc'[p].result = "err")
                => SeasonById(loc[p].rsid) = {}]_vars

\* a recalculation of a season whose named configuration has been deleted has
\* completed with the season's own K = 32 from 1000, and another one of a
\* season id that does not exist has returned its error
C28_Witness ==
    /\ \E s \in seasons :
          /\ s.elo_version = 3
          /\ NamedBy(s) = {}
          /\ \E h \in elo_history :
                /\ h.season_id = s.id
                /\ h.created_at # None
                /\ h.elo_before = s.starting_elo
                /\ h.elo_after = s.starting_elo + s.k_factor \div 2
    /\ \E p \in Procs :
          /\ pc[p] = "done" /\ loc[p].op = "recalculate" /\ loc[p].result = "err"
          /\ SeasonById(loc[p].rsid) = {}

\* the games a player has in the matches replayed before the j-th
GamesBefore(ms, j, q) ==
    Cardinality({g \in games :
        \E i \in 1..(j - 1) : /\ g.match_id = ms[i].id
                              /\ q \in {ms[i].player1_id, ms[i].player2_id}})

\* the places of the ledger rows the replay emitted for a game and a player
RowsFor(rows, game_id, q) ==
    {i \in DOMAIN rows : rows[i].game_id = game_id /\ rows[i].player_id = q}

\* C26: when a match of n games is replayed, each participant's K-factor is
\* resolved once, from the games played before the match's first game, and used
\* for all n games; the rating before game i is the rating after game i - 1;
\* there is exactly one change per game and participant, in game order.
C26_OneKPerMatch ==
    \A p \in Procs :
        pc[p] = "rc_persist"
            => LET rc == loc[p].rc
                   rows == rc.final.rows
                   K(j, q) == calculate_dynamic_k_factor(rc.cfg.k_factor,
                                  rc.cfg.base_k_factor, rc.cfg.new_player_k_bonus,
                                  rc.cfg.new_player_bonus_period,
                                  GamesBefore(rc.matches, j, q))
               IN  \A j \in DOMAIN rc.matches :
                      LET m == rc.matches[j]
                          gs == GamesOfMatch(m.id)
                          p1 == m.player1_id
                          p2 == m.player2_id
                          at(i, q) == CHOOSE x \in RowsFor(rows, gs[i].id, q) : TRUE
                      IN  \A i \in DOMAIN gs :
                             /\ Cardinality(RowsFor(rows, gs[i].id, p1)) = 1
                             /\ Cardinality(RowsFor(rows, gs[i].id, p2)) = 1
                             /\ LET r1 == rows[at(i, p1)]
                                    r2 == rows[at(i, p2)]
                                    score1 == IF gs[i].player1_id = p1 THEN Unit ELSE 0
                                    e1 == Expected(r1.elo_before, r2.elo_before)
                                IN  /\ r1.elo_after - r1.elo_before =
                                          MulDiv(K(j, p1), FSub(score1, e1), Unit)
                                    /\ r2.elo_after - r2.elo_before =
                                          MulDiv(K(j, p2),
                                                 FSub(Unit - score1, FSub(Unit, e1)), Unit)
                             /\ i > 1 => /\ at(i - 1, p1) < at(i, p1)
                                         /\ at(i - 1, p2) < at(i, p2)
                                         /\ rows[at(i, p1)].elo_before =
                                                rows[at(i - 1, p1)].elo_after
                                         /\ rows[at(i, p2)].elo_before =
                                                rows[at(i - 1, p2)].elo_after

\* a replay has gone through a match of one game and then a match of two games
\* of players who are no longer newcomers
C26_Witness ==
    \E p \in Procs :
        /\ pc[p] = "rc_persist"
        /\ Len(loc[p].rc.matches) = 2
        /\ Len(GamesOfMatch(loc[p].rc.matches[1].id)) = 1
        /\ Len(GamesOfMatch(loc[p].rc.matches[2].id)) = 2
        /\ Len(loc[p].rc.final.rows) = 6
        /\ GamesBefore(loc[p].rc.matches, 2, loc[p].rc.matches[2].player1_id) = 1

\* the members of a season in the Participation rows rows
MembersIn(rows, season_id) == {ps.player_id : ps \in {r \in rows : r.season_id = season_id}}

\* the games of the season's matches whose two participants are both members
CountedGames(rows, season_id) ==
    {g \in games :
        \E m \in matches : /\ m.id = g.match_id
                           /\ m.season_id = season_id
                           /\ m.player1_id \in MembersIn(rows, season_id)
                           /\ m.player2_id \in MembersIn(rows, season_id)}

\* C27: when recalculate_season_elo of a season commits, each game of a match
\* of the season whose two participants are both members has exactly two ledger
\* entries in the season, one per participant, and counts as one game for each
\* of them, one win for its winner and one loss for its loser; a match with a
\* participant who is not a member has no ledger entry in the season and
\* changes no member's counters or rating.
C27_MembersOnly ==
    [][\A p \in Procs :
          (pc[p] = "rc_commit" /\ pc'[p] # "rc_commit")
             => LET S == loc[p].rc.season_id
                    counted == CountedGames(player_seasons', S)
                    ledger == {h \in elo_history' : h.season_id = S}
                IN  /\ \A g \in counted :
                          /\ Cardinality({h \in ledger : h.game_id = g.id}) = 2
                          /\ {h.player_id : h \in {x \in ledger : x.game_id = g.id}}
                                = {g.player1_id, g.player2_id}
                    /\ \A h \in ledger : \E g \in counted : g.id = h.game_id
                    /\ \A ps \in {r \in player_seasons' : r.season_id = S} :
                          LET q == ps.player_id
                          IN  /\ ps.games_played =
                                    Cardinality({g \in counted : q \in {g.player1_id, g.player2_id}})
                              /\ ps.wins = Cardinality({g \in counted : g.player1_id = q})
                              /\ ps.losses = Cardinality({g \in counted : g.player2_id = q})
                              /\ ps.games_played = 0 => ps.current_elo = loc[p].rc.cfg.starting_elo
          ]_vars

\* season 1 has been replayed with a match of its two members, and season 2,
\* of which player 2 is not a member, with a match of players 1 and 2 that got
\* no ledger entry in it and left player 1 at the starting rating
C27_Witness ==
    \E m1, m2 \in matches :
        /\ m1.season_id = 1 /\ m2.season_id = 2
        /\ MembersIn(player_seasons, 1) = {1, 2}
        /\ MembersIn(player_seasons, 2) = {1}
        /\ \E h \in elo_history :
              h.season_id = 1 /\ h.game_id[1] = m1.id /\ h.created_at # None
        /\ ~\E h \in elo_history : h.season_id = 2
        /\ \E ps \in player_seasons :
              /\ ps.season_id = 2 /\ ps.games_played = 0
              /\ ps.current_elo = StaticConfig.starting_elo
        /\ \E p \in Procs : Finished(p, {"recalculate"}) /\ loc[p].rsid = 2

\* the ids of the seasons in rows that start at or after start_date
SeasonsFrom(rows, start_date) == {s.id : s \in {t \in rows : t.start_date >= start_date}}

\* the start date of the season with the given id in rows
StartIn(rows, season_id) == (CHOOSE s \in rows : s.id = season_id).start_date

\* the statements of recalculate_seasons_from and recalculate_season_elo
RecalcLabels ==
    {"rf_select", "rf_next", "rc_season", "rc_matches", "rc_members", "rc_delete",
     "rc_replay", "rc_persist", "rc_commit"}

\* C29: during create_season the recalculation starts only after player
\* initialization and reassignment have completed; it covers exactly the
\* seasons starting at or after the new season's start_date, one at a time in
\* ascending start_date order; it stops at the first season whose
\* recalculation fails: no later season is recalculated, the compensation runs
\* and create_season returns the error.
C29_RecalculationOrder ==
    [][\A p \in Procs :
          loc'[p].op = "create_season"
             => LET done == loc'[p].recalculated
                    ahead == loc'[p].queue
                    new == loc'[p].sid
                    start(id) == StartIn(seasons', id)
                IN  \* entered from the last statement of the reassignment only
                    /\ (pc[p] # "rf_select" /\ pc'[p] = "rf_select")
                          => /\ pc[p] = "ra_games"
                             /\ \A q \in InitialMembers(loc'[p].player_ids) :
                                   \E ps \in player_seasons' :
                                      ps.player_id = q /\ ps.season_id = new
                             /\ \A m \in matches' :
                                   (\E s \in seasons' : s.start_date <= m.submitted_at)
                                      => start(m.season_id) <= m.submitted_at
                             /\ \A g \in games' : \A m \in matches' :
                                   m.id = g.match_id => g.season_id = m.season_id
                    /\ pc'[p] \in {"cs_deactivate", "cs_commit", "cs_init", "ra_matches",
                                   "ra_games", "rf_select"}
                          => done = <<>>
                    \* one season at a time, in ascending order, none twice
                    /\ pc'[p] \in RecalcLabels \ {"rf_select"}
                          => /\ \A i, j \in 1..Len(done) :
                                   i < j => /\ done[i] # done[j]
                                            /\ start(done[i]) <= start(done[j])
                             /\ \A i \in 1..Len(done), j \in 1..Len(ahead) :
                                   /\ done[i] # ahead[j]
                                   /\ start(done[i]) <= start(ahead[j])
                             /\ \A i, j \in 1..Len(ahead) :
                                   i < j => /\ ahead[i] # ahead[j]
                                            /\ start(ahead[i]) <= start(ahead[j])
                             /\ Range(done) \cup Range(ahead)
                                   \cup (IF pc'[p] = "rf_next" THEN {} ELSE {loc'[p].rsid})
                                   = SeasonsFrom(seasons', loc'[p].start_date)
                    \* returned Ok: every such season has been recalculated
                    /\ (pc'[p] = "done" /\ loc'[p].result = "ok")
                          => Range(done) = SeasonsFrom(seasons', loc'[p].start_date)
                    \* a failed recalculation: nothing more is recalculated
                    /\ (pc[p] \in RecalcLabels /\ pc'[p] \notin RecalcLabels
                          /\ loc'[p].result = "err")
                          => /\ pc'[p] = "cs_cleanup"
                             /\ loc'[p].rsid \notin Range(done)
                             /\ Range(ahead) \cap Range(done) = {}
                    /\ pc[p] = "cs_cleanup"
                          => /\ pc'[p] \in {"cs_cleanup", "done"}
                             /\ done = loc[p].recalculated
                             /\ loc'[p].result = "err"]_vars

\* create_season has recalculated the new season, to which a match was
\* reassigned, then the recalculation of the later season has failed and
\* create_season has returned the error
C29_Witness ==
    \E p \in Procs :
        /\ pc[p] = "done"
        /\ loc[p].op = "create_season"
        /\ loc[p].result = "err"
        /\ loc[p].recalculated = <<loc[p].sid>>
        /\ loc[p].rsid # loc[p].sid
        /\ \E s \in seasons : s.id = loc[p].rsid /\ s.start_date > loc[p].start_date
        /\ \E m \in matches : m.season_id = loc[p].sid

\* the status of the job with the given id in rows
StatusIn(rows, job_id) == (CHOOSE j \in rows : j.id = job_id).status

\* C30: a job created by recalculate_elo changes status only from pending to
\* running and from running to completed or failed: to completed only when
\* recalculate_all_elo returned Ok, to failed only when it returned an error;
\* the recalculation never runs while the job is pending; a completed or
\* failed job never changes again, and no job disappears.
C30_JobLifecycle ==
    [][/\ \A j \in jobs :
             /\ \E n \in jobs' : n.id = j.id
             /\ LET before == j.status
                    after == StatusIn(jobs', j.id)
                IN  before # after
                       => /\ \/ before = "pending" /\ after = "running"
                             \/ before = "running" /\ after \in {"completed", "failed"}
                          /\ \E p \in Procs :
                                /\ loc[p].job = j.id
                                /\ after = "completed" => pc[p] = "re_record" /\ loc[p].result = "ok"
                                /\ after = "failed" => pc[p] = "re_record" /\ loc[p].result = "err"
      /\ \A n \in jobs' : (\A j \in jobs : j.id # n.id) => n.status = "pending"
      /\ \A p \in Procs :
            pc'[p] \in {"re_select", "re_commit"}
               => StatusIn(jobs', loc'[p].job) = "running"]_vars

\* one job has been completed by a recalculation that rewrote the ledger of the
\* configuration, another one has failed
C30_Witness ==
    /\ \E j \in jobs : j.status = "completed"
    /\ \E j \in jobs : j.status = "failed"
    /\ \E h \in elo_history : h.elo_version = NamedConfig.version_name

\* what one replay of the season's matches, as they are now, leaves in the
\* Participation rows of the season
SingleReplay(season_id) ==
    LET season == CHOOSE s \in seasons : s.id = season_id
        mine == {m \in matches : m.season_id = season_id}
        at(m) == m.submitted_at
        ms == CHOOSE s \in OrderedBy(mine, at) : TRUE
        st == Replay(ms, MembersIn(player_seasons, season_id), EffectiveConfig(season),
                     season_id)
    IN  {ps \in PersistedRows(player_seasons, st, season_id) : ps.season_id = season_id}

\* C31: after any number of recalculate_season_elo invocations on the same
\* season have run concurrently and all have committed, the season's ledger
\* holds exactly two entries per replayed game and the season's Participation
\* rows are those of a single replay.
C31_OverlappingRecalculations ==
    (\A p \in Procs : pc[p] \in {"idle", "done"})
        => \A s \in seasons :
              /\ \A g \in CountedGames(player_seasons, s.id) :
                    Cardinality({h \in elo_history :
                                    h.season_id = s.id /\ h.game_id = g.id}) = 2
              /\ ParticipationOf(s.id) = SingleReplay(s.id)

\* a recalculation of the season that has read the season's matches and has
\* not committed
BetweenReadAndCommit(p, season_id) ==
    /\ pc[p] \in {"rc_members", "rc_delete", "rc_replay", "rc_persist", "rc_commit"}
    /\ loc[p].rc.season_id = season_id

\* C32: nothing serializes the recalculations of one season: an invocation
\* that is about to look up the season, read its matches or read its members
\* can always do so, also while another invocation on the same season is
\* between reading the matches and committing, so that two invocations can be
\* there at the same time.
C32_NotSerialized ==
    \A p \in Procs :
        /\ pc[p] = "rc_season" => ENABLED RecalcSeason(p)
        /\ pc[p] = "rc_matches" => ENABLED RecalcMatches(p)
        /\ pc[p] = "rc_members" => ENABLED RecalcMembers(p)

\* two invocations on season 1 are both between reading the matches and
\* committing, each with the same match to replay
C32_Witness ==
    /\ BetweenReadAndCommit(1, 1)
    /\ BetweenReadAndCommit(2, 1)
    /\ pc[1] = "rc_commit"
    /\ pc[2] = "rc_replay"
    /\ loc[1].rc.matches = loc[2].rc.matches
    /\ Len(loc[1].rc.matches) = 1

\* the only create_season call has failed after its season row and
\* Participation rows were in place, and the compensation has removed the
\* season
CompensatedCreate(p) ==
    /\ pc[p] = "done"
    /\ loc[p].op = "create_season"
    /\ loc[p].result = "err"
    /\ loc[p].sid # None
    /\ SeasonById(loc[p].sid) = {}

\* C33: a create_season that fails in reassignment or recalculation and is
\* compensated leaves every match's and game's season assignment as it was
\* before the call (here: the recorded match and its game in season 1), no
\* match or game assigned to the removed season, and the ledger and the
\* Participation rows of the other season as they were before the call.
C33_AssignmentRestored ==
    \A p \in Procs :
        CompensatedCreate(p)
            => /\ matches = {NewMatch(FirstMatch, 1)}
               /\ games = NewGames(FirstMatch, 1)
               /\ \A r \in matches \cup games : r.season_id # loc[p].sid
               /\ {WithoutId(h) : h \in LedgerOf(1)}
                     = {WithoutId(h) : h \in WithIds(LiveRows(FirstMatch, 1), {})}
               /\ ParticipationOf(1)
                     = LiveStats({PlayerSeasonRow(q, 1, StaticConfig.starting_elo) :
                                     q \in Players}, FirstMatch, 1)

\* the Participation row a submission is about to lock
WantedRow(p) ==
    IF pc[p] = "cm_lock1" THEN {<<loc[p].cm.player1_id, loc[p].cm.season.id>>}
    ELSE IF pc[p] = "cm_lock2" THEN {<<loc[p].cm.player2_id, loc[p].cm.season.id>>}
    ELSE {}

\* p's next statement waits for a row lock that q's open transaction holds
WaitsFor(p, q) == WantedRow(p) \cap LockedRows(q) # {}

\* C34: two concurrent submissions between the same two players in opposite
\* positions never wait for each other: the row locks, taken in
\* player1-then-player2 order, form no wait cycle.
C34_NoWaitCycle ==
    \A p, q \in Procs :
        (/\ p # q
         /\ pc[p] \in {"cm_lock1", "cm_lock2"}
         /\ pc[q] \in {"cm_lock1", "cm_lock2"}
         /\ loc[p].cm.player1_id = loc[q].cm.player2_id
         /\ loc[p].cm.player2_id = loc[q].cm.player1_id)
            => ~(WaitsFor(p, q) /\ WaitsFor(q, p))

\* create_season has returned Ok to process p
CreatedOk(p) ==
    /\ pc[p] = "done"
    /\ loc[p].op = "create_season"
    /\ loc[p].result = "ok"

\* the members the request asks for: the given ids that exist in players, or
\* the players that were active when the initialization selected them
RequestedMembers(p) ==
    IF loc[p].player_ids.given
    THEN {q \in Range(loc[p].player_ids.list) : q \in DOMAIN players}
    ELSE loc[p].init.selected

JobCreated(job_id) == \E j \in jobs : j.id = job_id

\* the job with the given id is completed or failed
JobFinished(job_id) == \E j \in jobs : j.id = job_id /\ j.status \in {"completed", "failed"}

\* C36: every job created by recalculate_elo eventually reaches completed or
\* failed when its task keeps being scheduled: no job stays pending or
\* running forever, whether the recalculation succeeds, fails, or a
\* job-status update itself fails.
C36_JobsFinish ==
    \A job_id \in 1..MaxJobs : [](JobCreated(job_id) => <>JobFinished(job_id))

====
